---- MODULE Spec2Model ----
(***************************************************************************)
(* Booking-intent extraction and resolution engine of rag-api              *)
(* (app/services/booking_parser.py, with the completion call of            *)
(* app/services/llm_service.py).                                           *)
(*                                                                         *)
(* Python strings are sequences of one-character strings, so that          *)
(* stripping, lower-casing, splitting, parsing and formatting are          *)
(* computed and not assumed.  Python's None is the value None below,       *)
(* which is no character sequence.  Confidences are in hundredths.         *)
(* nlp is TRUE when the parser holds a loaded TextAnalyzer (self.nlp) and  *)
(* FALSE when it holds None.                                               *)
(***************************************************************************)
EXTENDS Integers, Sequences, FiniteSets, TLC

VARIABLES pc, text, spacy_result, extractors_run, llm_calls, llm_outcome,
          llm_response, llm_result, combiner_runs, result, validation, nlp,
          chat_pc, query, session_id, request_no, booking_id, db_result,
          prompt_history, history, rows, request_count

\* what the chat endpoint, the chat history and the bookings table hold
chat_vars == <<chat_pc, query, session_id, request_no, booking_id, db_result,
               prompt_history, history, rows, request_count>>
vars == <<pc, text, spacy_result, extractors_run, llm_calls, llm_outcome,
          llm_response, llm_result, combiner_runs, result, validation, nlp,
          chat_vars>>

(***************************************************************************)
(* Bounds of the model                                                     *)
(***************************************************************************)
\* largest number of booking keywords / temporal entities in one text
MaxKeywordMatches == 1
MaxTemporalEntities == 1
\* the current day (datetime.now().date()), as days since 2026-01-01
Today == 307
\* how far ahead of Today a date candidate of a text lies
DaysAhead == 60
\* the chat requests served, and the bookings asked for once the table
\* holds this many rows
MaxRequests == 4
MaxRows == 1
\* the chat sessions
Sessions == {1}

(***************************************************************************)
(* Strings                                                                 *)
(***************************************************************************)
None == <<"None">>

Digits == <<"0", "1", "2", "3", "4", "5", "6", "7", "8", "9">>
UpperAlpha == <<"A", "B", "C", "D", "E", "F", "G", "H", "I", "J", "K", "L", "M",
                "N", "O", "P", "Q", "R", "S", "T", "U", "V", "W", "X", "Y", "Z">>
LowerAlpha == <<"a", "b", "c", "d", "e", "f", "g", "h", "i", "j", "k", "l", "m",
                "n", "o", "p", "q", "r", "s", "t", "u", "v", "w", "x", "y", "z">>
Whitespace == {" ", "\t", "\n", "\r"}

IsDigit(c) == \E i \in 1..10 : Digits[i] = c
DigitVal(c) == (CHOOSE i \in 1..10 : Digits[i] = c) - 1

\* str.lower()
LowerChar(c) ==
    IF \E i \in 1..26 : UpperAlpha[i] = c
    THEN LowerAlpha[CHOOSE i \in 1..26 : UpperAlpha[i] = c]
    ELSE c
Lower(s) == [i \in 1..Len(s) |-> LowerChar(s[i])]

\* str.strip()
RECURSIVE LStrip(_)
LStrip(s) == IF s # <<>> /\ Head(s) \in Whitespace THEN LStrip(Tail(s)) ELSE s
RECURSIVE RStrip(_)
RStrip(s) ==
    IF s # <<>> /\ s[Len(s)] \in Whitespace
    THEN RStrip(SubSeq(s, 1, Len(s) - 1)) ELSE s
Strip(s) == RStrip(LStrip(s))

\* sub in s
StartsWithAt(s, i, sub) ==
    /\ i + Len(sub) - 1 <= Len(s)
    /\ \A j \in 1..Len(sub) : s[i + j - 1] = sub[j]
Contains(s, sub) == \E i \in 1..(Len(s) + 1) : StartsWithAt(s, i, sub)

\* the index of the first c in s, 0 if there is none
IndexOf(s, c) ==
    IF \E i \in 1..Len(s) : s[i] = c
    THEN CHOOSE i \in 1..Len(s) : s[i] = c /\ \A j \in 1..(i - 1) : s[j] # c
    ELSE 0
\* s.rfind(c) + 1
LastIndexOf(s, c) ==
    IF \E i \in 1..Len(s) : s[i] = c
    THEN CHOOSE i \in 1..Len(s) : s[i] = c /\ \A j \in (i + 1)..Len(s) : s[j] # c
    ELSE 0

\* f"{n:02d}"
Fmt2(n) ==
    IF n < 10 THEN <<"0", Digits[n + 1]>>
    ELSE IF n < 100 THEN <<Digits[(n \div 10) + 1], Digits[(n % 10) + 1]>>
    ELSE <<Digits[(n \div 100) + 1], Digits[((n \div 10) % 10) + 1], Digits[(n % 10) + 1]>>
\* "%Y" of a four-digit year
Fmt4(n) == <<Digits[(n \div 1000) + 1], Digits[((n \div 100) % 10) + 1],
             Digits[((n \div 10) % 10) + 1], Digits[(n % 10) + 1]>>

\* Python truthiness of an Optional[str]: None and "" are falsy
Truthy(x) == x # None /\ x # <<>>
\* the operands are exchanged
PyOr_SecondFirst(a, b) == IF Truthy(b) THEN b ELSE a

\* a or b
PyOr(a, b) == IF Truthy(a) THEN a ELSE b

S_name == <<"n", "a", "m", "e">>
S_email == <<"e", "m", "a", "i", "l">>
S_date == <<"d", "a", "t", "e">>
S_time == <<"t", "i", "m", "e">>
S_type == <<"t", "y", "p", "e">>
S_intent == <<"i", "n", "t", "e", "n", "t">>
S_not_found == <<"n", "o", "t", "_", "f", "o", "u", "n", "d">>
S_missing == <<"m", "i", "s", "s", "i", "n", "g">>
S_none == <<"n", "o", "n", "e">>
S_booking == <<"b", "o", "o", "k", "i", "n", "g">>
S_scheduling == <<"s", "c", "h", "e", "d", "u", "l", "i", "n", "g">>
S_general == <<"g", "e", "n", "e", "r", "a", "l">>
S_technical == <<"t", "e", "c", "h", "n", "i", "c", "a", "l">>
S_hr == <<"h", "r">>
S_phone == <<"p", "h", "o", "n", "e">>
S_video == <<"v", "i", "d", "e", "o">>
S_onsite == <<"o", "n", "s", "i", "t", "e">>
S_noon == <<"n", "o", "o", "n">>
S_midnight == <<"m", "i", "d", "n", "i", "g", "h", "t">>
S_am == <<"a", "m">>
S_pm == <<"p", "m">>

(***************************************************************************)
(* TimeNormalizer                                                          *)
(***************************************************************************)
\* re.sub(r"\s*(am|pm)\s*", "", s): every leftmost match is removed
RECURSIVE SkipSpaces(_, _)
SkipSpaces(s, i) ==
    IF i <= Len(s) /\ s[i] \in Whitespace THEN SkipSpaces(s, i + 1) ELSE i
RECURSIVE RemoveAmPmFrom(_, _)
RemoveAmPmAt(s, i, j) ==
    IF StartsWithAt(s, j, S_am) \/ StartsWithAt(s, j, S_pm)
    THEN RemoveAmPmFrom(s, SkipSpaces(s, j + 2))
    ELSE <<s[i]>> \o RemoveAmPmFrom(s, i + 1)
RemoveAmPmFrom(s, i) ==
    IF i > Len(s) THEN <<>> ELSE RemoveAmPmAt(s, i, SkipSpaces(s, i))
RemoveAmPm(s) == RemoveAmPmFrom(s, 1)

\* datetime.strptime(s, "%H:%M"): the regex (2[0-3]|[0-1]\d|\d):([0-5]\d|\d)
\* matched at the start of s; ValueError if it does not match or if
\* unconverted data remains after the match
ValueError == [ok |-> FALSE, hour |-> 0, minute |-> 0]
TwoDigits(a, b) == DigitVal(a) * 10 + DigitVal(b)
StrptimeMinute(hour, rest) ==
    IF Len(rest) = 2 /\ IsDigit(rest[1]) /\ IsDigit(rest[2]) /\ DigitVal(rest[1]) <= 5
    THEN [ok |-> TRUE, hour |-> hour, minute |-> TwoDigits(rest[1], rest[2])]
    ELSE IF Len(rest) = 1 /\ IsDigit(rest[1])
    THEN [ok |-> TRUE, hour |-> hour, minute |-> DigitVal(rest[1])]
    ELSE ValueError
StrptimeHM(s) ==
    IF /\ Len(s) >= 3
       /\ IsDigit(s[1]) /\ IsDigit(s[2]) /\ s[3] = ":"
       /\ TwoDigits(s[1], s[2]) <= 23
    THEN StrptimeMinute(TwoDigits(s[1], s[2]), SubSeq(s, 4, Len(s)))
    ELSE IF Len(s) >= 2 /\ IsDigit(s[1]) /\ s[2] = ":"
    THEN StrptimeMinute(DigitVal(s[1]), SubSeq(s, 3, Len(s)))
    ELSE ValueError

\* if ":" not in time_clean: time_clean += ":00"
WithMinutes(s) == IF IndexOf(s, ":") = 0 THEN s \o <<":", "0", "0">> ELSE s
\* f"{hours:02d}:{minutes:02d}"
FormatHM(hours, minutes) == Fmt2(hours) \o <<":">> \o Fmt2(minutes)
\* twelve o'clock is not set back to 0 for am
AdjustedHour_NoMidnight(s, hours) ==
    IF Contains(s, S_pm) /\ hours # 12 THEN hours + 12 ELSE hours

\* lines 243-247
AdjustedHour(s, hours) ==
    IF Contains(s, S_pm) /\ hours # 12 THEN hours + 12
    ELSE IF Contains(s, S_am) /\ hours = 12 THEN 0
    ELSE hours
\* lines 238-251
NormalizeAmPm(s, time_obj) ==
    IF ~time_obj.ok THEN None
    ELSE FormatHM(AdjustedHour(s, time_obj.hour), time_obj.minute)
\* lines 260-264
Normalize24(time_obj) ==
    IF ~time_obj.ok THEN None ELSE FormatHM(time_obj.hour, time_obj.minute)
\* lines 224-264, on the stripped and lower-cased string
NormalizeLowered(s) ==
    IF Contains(s, S_noon) THEN <<"1", "2", ":", "0", "0">>
    ELSE IF Contains(s, S_midnight) THEN <<"0", "0", ":", "0", "0">>
    ELSE IF Contains(s, S_pm) \/ Contains(s, S_am)
    THEN NormalizeAmPm(s, StrptimeHM(WithMinutes(RemoveAmPm(s))))
    ELSE IF IndexOf(s, ":") = 0 /\ Len(s) > 2 THEN None
    ELSE Normalize24(StrptimeHM(WithMinutes(s)))

\* BookingParser._normalize_time
_normalize_time(time_str) == NormalizeLowered(Lower(Strip(time_str)))

(***************************************************************************)
(* Dates: a calendar date is its number of days since 2026-01-01           *)
(***************************************************************************)
CumDays == <<0, 31, 59, 90, 120, 151, 181, 212, 243, 273, 304, 334, 365>>
YearOf(n) == 2026 + (n \div 365)
MonthOf(n) == CHOOSE m \in 1..12 : CumDays[m] <= n % 365 /\ n % 365 < CumDays[m + 1]
DayOf(n) == (n % 365) - CumDays[MonthOf(n)] + 1
\* parsed_date.strftime("%Y-%m-%d")
StrftimeYmd(n) ==
    Fmt4(YearOf(n)) \o <<"-">> \o Fmt2(MonthOf(n)) \o <<"-">> \o Fmt2(DayOf(n))

(***************************************************************************)
(* The record, and the extractors                                          *)
(***************************************************************************)
RequiredFields == <<"name", "email", "date", "time">>

\* BookingInfo(extracted_text=text), with the dataclass defaults
BookingInfo(extracted_text) ==
    [name |-> None, email |-> None, date |-> None, time |-> None,
     interview_type |-> None, status |-> "INCOMPLETE", confidence |-> 0,
     missing_fields |-> <<>>, extracted_text |-> extracted_text]

\* if x not in list: list.append(x)
AppendNew(list, x) ==
    IF \E i \in 1..Len(list) : list[i] = x THEN list ELSE Append(list, x)
\* list[0] if list else None
FirstOrNone(list) == IF list # <<>> THEN list[1] ELSE None

\* BookingParser.detect_booking_intent, lines 93-108: booking_score is kept
\* doubled, a keyword lemma counts 2 and a temporal entity 1
BookingScore2(t) == 2 * t.keyword_matches + t.temporal_entities
HasTemporal(t) == t.temporal_entities > 0

\* the temporal entities add nothing to the score
detect_booking_intent_KeywordsOnly(t) ==
    IF ~nlp THEN t.keyword_substrings
    ELSE 2 * t.keyword_matches >= 2 \/ (HasTemporal(t) /\ 2 * t.keyword_matches > 0)

\* BookingParser.detect_booking_intent
detect_booking_intent(t) ==
    IF ~nlp THEN t.keyword_substrings
    ELSE BookingScore2(t) >= 2 \/ (HasTemporal(t) /\ BookingScore2(t) > 0)

\* len(name.split())
FirstWhitespace(r) ==
    IF \E i \in 1..Len(r) : r[i] \in Whitespace
    THEN CHOOSE i \in 1..Len(r) :
             r[i] \in Whitespace /\ \A j \in 1..(i - 1) : r[j] \notin Whitespace
    ELSE Len(r) + 1
RECURSIVE WordCount(_)
CountWords(r) ==
    IF r = <<>> THEN 0 ELSE 1 + WordCount(SubSeq(r, FirstWhitespace(r), Len(r)))
WordCount(s) == CountWords(LStrip(s))

\* BookingParser.extract_person_names
KeepNerName(names, name) ==
    IF Len(name) > 1 /\ WordCount(name) <= 5 THEN Append(names, name) ELSE names
RECURSIVE NerNames(_)
NerNames(ents) ==
    IF ents = <<>> THEN <<>>
    ELSE KeepNerName(NerNames(SubSeq(ents, 1, Len(ents) - 1)), Strip(ents[Len(ents)]))
KeepPatternName(names, name) ==
    IF Len(name) > 1 THEN AppendNew(names, name) ELSE names
RECURSIVE PatternNames(_, _)
PatternNames(names, matches) ==
    IF matches = <<>> THEN names
    ELSE PatternNames(KeepPatternName(names, Strip(Head(matches))), Tail(matches))
extract_person_names(t) ==
    IF ~nlp THEN <<>> ELSE PatternNames(NerNames(t.ner_persons), t.pattern_names)

\* BookingParser.extract_email
extract_email(t) == FirstOrNone(t.email_matches)

\* BookingParser.extract_dates: a candidate is what the date parser makes of a
\* span of the text, the day it gives or the failure it raises
Parsed(day) == [parsed |-> TRUE, day |-> day]
Unparseable == [parsed |-> FALSE, day |-> 0]
KeepDate(dates, d, earliest) ==
    IF d.parsed /\ d.day >= earliest THEN AppendNew(dates, StrftimeYmd(d.day)) ELSE dates
RECURSIVE CollectDates(_, _, _)
CollectDates(dates, cands, earliest) ==
    IF cands = <<>> THEN dates
    ELSE CollectDates(KeepDate(dates, Head(cands), earliest), Tail(cands), earliest)
\* lines 149-166
NerDates(t) == IF nlp THEN CollectDates(<<>>, t.ner_dates, Today - 1) ELSE <<>>

\* the one-day tolerance is applied to the dates of the patterns too
extract_dates_RegexTolerance(t) ==
    CollectDates(NerDates(t), t.regex_dates, Today - 1)

extract_dates(t) == CollectDates(NerDates(t), t.regex_dates, Today)

\* BookingParser.extract_times
KeepTime(times, normalized_time) ==
    IF Truthy(normalized_time) THEN AppendNew(times, normalized_time) ELSE times
RECURSIVE CollectTimes(_, _)
CollectTimes(times, cands) ==
    IF cands = <<>> THEN times
    ELSE CollectTimes(KeepTime(times, _normalize_time(Head(cands))), Tail(cands))
\* the spans handed to _normalize_time, in order: the TIME entities when
\* there is a TextAnalyzer, then the matches of the patterns
TimeSpans(t) == (IF nlp THEN t.ner_times ELSE <<>>) \o t.regex_times
extract_times(t) == CollectTimes(<<>>, TimeSpans(t))

\* BookingParser.extract_interview_type: the first keyword group, in the
\* order of self.interview_types, with a keyword among the lemmas, or in
\* the lower-cased text when there is no TextAnalyzer
InterviewTypes == <<S_technical, S_hr, S_phone, S_video, S_onsite>>
FirstType(hits) ==
    IF \E i \in 1..5 : InterviewTypes[i] \in hits
    THEN InterviewTypes[CHOOSE i \in 1..5 :
            InterviewTypes[i] \in hits
            /\ \A j \in 1..(i - 1) : InterviewTypes[j] \notin hits]
    ELSE S_general
extract_interview_type(t) ==
    FirstType(IF nlp THEN t.type_hits ELSE t.type_substrings)

\* the value of a required field of a record
Field(r, f) ==
    CASE f = "name" -> r.name [] f = "email" -> r.email
      [] f = "date" -> r.date [] f = "time" -> r.time

\* the four "if not booking_info.<field>: missing_fields.append(...)"
MissingFields(r) == SelectSeq(RequiredFields, LAMBDA f : ~Truthy(Field(r, f)))

\* missing_fields, status and confidence are stored in the record
Finalize(r, missing_fields, sc) ==
    [r EXCEPT !.missing_fields = missing_fields,
              !.status = sc.status, !.confidence = sc.confidence]

\* the final assignment is skipped when three or four fields are missing
RuleStatusConfidence_KeepsDetected(missing_fields) ==
    IF missing_fields = <<>> THEN [status |-> "VALID", confidence |-> 90]
    ELSE IF Len(missing_fields) <= 2 THEN [status |-> "INCOMPLETE", confidence |-> 70]
    ELSE [status |-> "DETECTED", confidence |-> 40]

\* the confidences of the two incomplete bands are exchanged
RuleStatusConfidence_BandsSwapped(missing_fields) ==
    IF missing_fields = <<>> THEN [status |-> "VALID", confidence |-> 90]
    ELSE IF Len(missing_fields) <= 2 THEN [status |-> "INCOMPLETE", confidence |-> 50]
    ELSE [status |-> "INCOMPLETE", confidence |-> 70]

\* BookingParser.parse_booking_request, lines 331-340
RuleStatusConfidence(missing_fields) ==
    IF missing_fields = <<>> THEN [status |-> "VALID", confidence |-> 90]
    ELSE IF Len(missing_fields) <= 2 THEN [status |-> "INCOMPLETE", confidence |-> 70]
    ELSE [status |-> "INCOMPLETE", confidence |-> 50]

\* a text without booking intent is given the status INVALID
NoIntentRecord_Invalid(booking_info) ==
    [booking_info EXCEPT !.status = "INVALID", !.confidence = 10]

\* BookingParser.parse_booking_request, lines 296-299
NoIntentRecord(booking_info) ==
    [booking_info EXCEPT !.status = "INCOMPLETE", !.confidence = 10]

\* BookingParser.parse_booking_request, lines 301-316
Extracted(booking_info, t) ==
    [booking_info EXCEPT
        !.status = "DETECTED", !.confidence = 40,
        !.name = FirstOrNone(extract_person_names(t)),
        !.email = extract_email(t),
        !.date = FirstOrNone(extract_dates(t)),
        !.time = FirstOrNone(extract_times(t)),
        !.interview_type = extract_interview_type(t)]
\* BookingParser.parse_booking_request, lines 318-342
RuleFinalize(r, missing_fields) ==
    Finalize(r, missing_fields, RuleStatusConfidence(missing_fields))
RuleFinal(r) == RuleFinalize(r, MissingFields(r))
\* BookingParser.parse_booking_request, lines 301-342
ExtractedRecord(booking_info, t) == RuleFinal(Extracted(booking_info, t))

\* the intent check is left out
parse_booking_request_NoShortCircuit(t) == ExtractedRecord(BookingInfo(t), t)

\* BookingParser.parse_booking_request
parse_booking_request(t) ==
    IF ~detect_booking_intent(t) THEN NoIntentRecord(BookingInfo(t))
    ELSE ExtractedRecord(BookingInfo(t), t)

\* the extractors parse_booking_request runs on a text
AllExtractors == {"names", "email", "dates", "times", "interview_type"}
ExtractorsRun(t) == IF ~detect_booking_intent(t) THEN {} ELSE AllExtractors

(***************************************************************************)
(* The completion service and the LLM sub-record                           *)
(* A text of several lines is the sequence of its lines.                   *)
(***************************************************************************)
ErrStatusText == <<"E", "r", "r", "o", "r", " ", "g", "e", "n", "e", "r", "a", "t", "i", "n", "g", " ", "r", "e", "s", "p", "o", "n", "s", "e">>
ErrClientText == <<"U", "n", "a", "b", "l", "e", " ", "t", "o", " ", "c", "o", "n", "n", "e", "c", "t", " ", "t", "o", " ", "A", "I", " ", "s", "e", "r", "v", "i", "c", "e">>
ErrOtherText == <<"P", "r", "o", "c", "e", "s", "s", "i", "n", "g", " ", "e", "r", "r", "o", "r", " ", "o", "c", "c", "u", "r", "r", "e", "d">>
NoResponseText == <<"N", "o", " ", "r", "e", "s", "p", "o", "n", "s", "e", " ", "g", "e", "n", "e", "r", "a", "t", "e", "d">>

\* LLMService._call_ollama: what the call returns for each outcome of the
\* HTTP exchange; no outcome makes it raise
_call_ollama(outcome) ==
    CASE outcome.kind = "ok" -> outcome.body
      [] outcome.kind = "no_response_key" -> <<NoResponseText>>
      [] outcome.kind = "status_error" -> <<ErrStatusText>>
      [] outcome.kind = "client_error" -> <<ErrClientText>>
      [] outcome.kind = "exception" -> <<ErrOtherText>>

\* dict.get(key, default) and d[key] = value, a dict being a function
DictGet(d, key, default) == IF key \in DOMAIN d THEN d[key] ELSE default
DictSet(d, key, value) ==
    [k \in (DOMAIN d) \cup {key} |-> IF k = key THEN value ELSE d[k]]

\* BookingParser._parse_llm_response, lines 453-460
SetIfFound(d, key, value) ==
    IF Lower(value) \notin {S_not_found, S_missing, <<>>} /\ value # <<>>
    THEN DictSet(d, key, value)
    ELSE d
ParseLineAt(d, line, colon) ==
    IF colon = 0 THEN d
    ELSE SetIfFound(d, Lower(Strip(SubSeq(line, 1, colon - 1))),
                    Strip(SubSeq(line, colon + 1, Len(line))))
\* the line is split on its last colon
ParseLine_LastColon(d, line) == ParseLineAt(d, line, LastIndexOf(line, ":"))

\* line 455: line.split(":", 1)
ParseLine(d, line) == ParseLineAt(d, line, IndexOf(line, ":"))
RECURSIVE ExtractedData(_)
ExtractedData(lines) ==
    IF lines = <<>> THEN <<>>
    ELSE ParseLine(ExtractedData(SubSeq(lines, 1, Len(lines) - 1)), lines[Len(lines)])

\* completeness is not looked at when the intent is a booking
LlmStatusConfidence_ValidOnIntent(intent, missing_fields) ==
    IF intent \in {S_booking, S_scheduling}
    THEN [status |-> "VALID", confidence |-> 85]
    ELSE [status |-> "INCOMPLETE", confidence |-> 30]

\* BookingParser._parse_llm_response, lines 469-494
LlmStatusConfidence(intent, missing_fields) ==
    IF intent \in {S_booking, S_scheduling}
    THEN IF missing_fields = <<>> THEN [status |-> "VALID", confidence |-> 85]
         ELSE [status |-> "INCOMPLETE", confidence |-> 65]
    ELSE [status |-> "INCOMPLETE", confidence |-> 30]

\* BookingParser._parse_llm_response, lines 462-467
Mapped(extracted_data, original_text) ==
    [BookingInfo(original_text) EXCEPT
        !.name = DictGet(extracted_data, S_name, None),
        !.email = DictGet(extracted_data, S_email, None),
        !.date = DictGet(extracted_data, S_date, None),
        !.time = DictGet(extracted_data, S_time, None),
        !.interview_type = DictGet(extracted_data, S_type, S_general)]
\* BookingParser._parse_llm_response, lines 469-494: missing_fields is
\* assigned only under a booking intent
LlmFinalize(r, intent, missing_fields) ==
    Finalize(r,
             IF intent \in {S_booking, S_scheduling}
             THEN missing_fields ELSE r.missing_fields,
             LlmStatusConfidence(intent, missing_fields))
LlmFinal(r, intent) == LlmFinalize(r, intent, MissingFields(r))
\* the intent is compared as it was written
ParsedData_CaseSensitive(extracted_data, original_text) ==
    LlmFinal(Mapped(extracted_data, original_text),
             DictGet(extracted_data, S_intent, S_none))

ParsedData(extracted_data, original_text) ==
    LlmFinal(Mapped(extracted_data, original_text),
             Lower(DictGet(extracted_data, S_intent, S_none)))

\* BookingParser._parse_llm_response; no statement of its try block raises
\* on a response that is a string, so lines 496-499 are never reached
_parse_llm_response(response, original_text) ==
    ParsedData(ExtractedData(response), original_text)

(***************************************************************************)
(* Combiner                                                                *)
(***************************************************************************)
\* BookingParser._combine_results, lines 420-431
SpacyContributions(spacy) ==
    Cardinality({f \in {"name", "email", "date", "time"} : Field(spacy, f) # None})

\* the two thresholds on the rule contributions are exchanged
CombinerStatusConfidence_Thresholds(missing_fields, spacy_contributions) ==
    IF missing_fields = <<>>
    THEN [status |-> "VALID",
          confidence |-> IF spacy_contributions >= 2 THEN 95 ELSE 85]
    ELSE IF Len(missing_fields) <= 2
    THEN [status |-> "INCOMPLETE",
          confidence |-> IF spacy_contributions >= 3 THEN 75 ELSE 65]
    ELSE [status |-> "INCOMPLETE", confidence |-> 55]

\* BookingParser._combine_results, lines 433-441
CombinerStatusConfidence(missing_fields, spacy_contributions) ==
    IF missing_fields = <<>>
    THEN [status |-> "VALID",
          confidence |-> IF spacy_contributions >= 3 THEN 95 ELSE 85]
    ELSE IF Len(missing_fields) <= 2
    THEN [status |-> "INCOMPLETE",
          confidence |-> IF spacy_contributions >= 2 THEN 75 ELSE 65]
    ELSE [status |-> "INCOMPLETE", confidence |-> 55]

\* the merged record takes the fields of the LLM sub-record alone
Merged_LlmOnly(spacy, llm) ==
    [BookingInfo(spacy.extracted_text) EXCEPT
        !.name = llm.name,
        !.email = llm.email,
        !.date = llm.date,
        !.time = llm.time,
        !.interview_type = PyOr(llm.interview_type, S_general)]

\* BookingParser._combine_results, lines 395-404
Merged(spacy, llm) ==
    [BookingInfo(spacy.extracted_text) EXCEPT
        !.name = PyOr(spacy.name, llm.name),
        !.email = PyOr(spacy.email, llm.email),
        !.date = PyOr(spacy.date, llm.date),
        !.time = PyOr(spacy.time, llm.time),
        !.interview_type =
            PyOr(PyOr(spacy.interview_type, llm.interview_type), S_general)]
\* BookingParser._combine_results, lines 406-443
CombinerFinalize(r, missing_fields, spacy_contributions) ==
    Finalize(r, missing_fields,
             CombinerStatusConfidence(missing_fields, spacy_contributions))
CombinerFinal(r, spacy_contributions) ==
    CombinerFinalize(r, MissingFields(r), spacy_contributions)

\* the values of an LLM sub-record without a booking intent are not merged
_combine_results_NeedsIntent(spacy, llm) ==
    CombinerFinal(Merged(spacy, IF llm.confidence = 30
                                THEN BookingInfo(spacy.extracted_text) ELSE llm),
                  SpacyContributions(spacy))

\* BookingParser._combine_results
_combine_results(spacy, llm) ==
    CombinerFinal(Merged(spacy, llm), SpacyContributions(spacy))

(***************************************************************************)
(* Validator                                                               *)
(***************************************************************************)
IsAlpha(c) == \E i \in 1..26 : UpperAlpha[i] = c \/ LowerAlpha[i] = c
IsAlnum(c) == IsAlpha(c) \/ IsDigit(c)
\* the character classes \w, [A-Za-z0-9._%+-], [A-Za-z0-9.-] and [A-Z|a-z]
WordChar(c) == IsAlnum(c) \/ c = "_"
LocalChar(c) == IsAlnum(c) \/ c \in {".", "_", "%", "+", "-"}
DomainChar(c) == IsAlnum(c) \/ c \in {".", "-"}
TldChar(c) == IsAlpha(c) \/ c = "|"
\* \b between s[e] and what follows it
BoundaryAfter(s, e) == WordChar(s[e]) # (e < Len(s) /\ WordChar(s[e + 1]))
\* re.match(self.email_pattern, s): the pattern matches a prefix of s, with
\* the @ at position at (the first one, no character before it being one),
\* the last dot of the match at position dot and its end at position e
EmailMatchesAt(s, at, dot, e) ==
    /\ \A k \in (at + 1)..(dot - 1) : DomainChar(s[k])
    /\ s[dot] = "."
    /\ \A k \in (dot + 1)..e : TldChar(s[k])
    /\ BoundaryAfter(s, e)
EmailMatchesFrom(s, at) ==
    /\ at >= 2
    /\ \A k \in 1..(at - 1) : LocalChar(s[k])
    /\ \E dot \in (at + 2)..Len(s) : \E e \in (dot + 2)..Len(s) :
          EmailMatchesAt(s, at, dot, e)
EmailMatches(s) ==
    /\ s # <<>>
    /\ WordChar(s[1])
    /\ EmailMatchesFrom(s, IndexOf(s, "@"))

\* datetime.strptime(s, "%Y-%m-%d").date(): the regex
\* (\d\d\d\d)-(1[0-2]|0[1-9]|[1-9])-(3[01]|[12]\d|0[1-9]|[1-9]| [1-9]) must
\* match all of s, and the three numbers must be a date of the calendar
NoDate == [ok |-> FALSE, year |-> 0, month |-> 0, day |-> 0]
AllDigits(s) == \A k \in 1..Len(s) : IsDigit(s[k])
MonthValue(t) ==
    IF Len(t) = 2 /\ AllDigits(t) /\ TwoDigits(t[1], t[2]) \in 1..12
    THEN TwoDigits(t[1], t[2])
    ELSE IF Len(t) = 1 /\ AllDigits(t) /\ DigitVal(t[1]) >= 1 THEN DigitVal(t[1])
    ELSE 0
DayValue(t) ==
    IF Len(t) = 2 /\ AllDigits(t) /\ TwoDigits(t[1], t[2]) \in 1..31
    THEN TwoDigits(t[1], t[2])
    ELSE IF Len(t) = 1 /\ AllDigits(t) /\ DigitVal(t[1]) >= 1 THEN DigitVal(t[1])
    ELSE IF Len(t) = 2 /\ t[1] = " " /\ IsDigit(t[2]) /\ DigitVal(t[2]) >= 1
    THEN DigitVal(t[2])
    ELSE 0
YearValue(s) == TwoDigits(s[1], s[2]) * 100 + TwoDigits(s[3], s[4])
IsLeap(y) == (y % 4 = 0 /\ y % 100 # 0) \/ y % 400 = 0
DaysInMonth(y, m) ==
    IF m = 2 THEN (IF IsLeap(y) THEN 29 ELSE 28)
    ELSE IF m \in {4, 6, 9, 11} THEN 30 ELSE 31
DateFromParts(y, m, d) ==
    IF y >= 1 /\ m >= 1 /\ d >= 1 /\ d <= DaysInMonth(y, m)
    THEN [ok |-> TRUE, year |-> y, month |-> m, day |-> d]
    ELSE NoDate
StrptimeYmdAt(s, dash) ==
    IF dash = 0 THEN NoDate
    ELSE DateFromParts(YearValue(s), MonthValue(SubSeq(s, 6, 4 + dash)),
                       DayValue(SubSeq(s, 6 + dash, Len(s))))
StrptimeYmd(s) ==
    IF Len(s) >= 5 /\ AllDigits(SubSeq(s, 1, 4)) /\ s[5] = "-"
    THEN StrptimeYmdAt(s, IndexOf(SubSeq(s, 6, Len(s)), "-"))
    ELSE NoDate
\* booking_date < datetime.now().date()
BeforeToday(d) ==
    \/ d.year < YearOf(Today)
    \/ d.year = YearOf(Today) /\ d.month < MonthOf(Today)
    \/ d.year = YearOf(Today) /\ d.month = MonthOf(Today) /\ d.day < DayOf(Today)

\* BookingParser.validate_booking_info, lines 507-510
EmailErrors(email) ==
    IF Truthy(email) /\ ~EmailMatches(email)
    THEN <<"Invalid email format">> ELSE <<>>
\* lines 512-521
BookingDateErrors(booking_date) ==
    IF ~booking_date.ok THEN <<"Invalid date format (use YYYY-MM-DD)">>
    ELSE IF BeforeToday(booking_date) THEN <<"Date cannot be in the past">>
    ELSE <<>>
DateErrors(date) ==
    IF Truthy(date) THEN BookingDateErrors(StrptimeYmd(date)) ELSE <<>>
\* lines 523-528
TimeErrors(time) ==
    IF Truthy(time) /\ ~StrptimeHM(time).ok
    THEN <<"Invalid time format (use HH:MM)">> ELSE <<>>
\* lines 530-535
NameErrors(name) ==
    IF ~Truthy(name) THEN <<>>
    ELSE IF Len(Strip(name)) < 2 THEN <<"Name too short">>
    ELSE IF Len(name) > 100 THEN <<"Name too long">>
    ELSE <<>>
\* lines 537-548
FieldPrompts ==
    [name |-> "Please provide your full name",
     email |-> "Please provide your email address",
     date |-> "Please specify the date (e.g., 2024-02-15 or 'tomorrow')",
     time |-> "Please specify the time (e.g., 2:30 PM or 14:30)"]
PromptedFields(missing_fields) ==
    SelectSeq(missing_fields, LAMBDA f : f \in DOMAIN FieldPrompts)
PromptsOf(fields) == [k \in 1..Len(fields) |-> FieldPrompts[fields[k]]]
Suggestions(missing_fields) == PromptsOf(PromptedFields(missing_fields))
Errors(r) ==
    EmailErrors(r.email) \o DateErrors(r.date) \o TimeErrors(r.time)
        \o NameErrors(r.name)

\* the missing fields are not looked at
ValidationResult_ErrorsOnly(errors, suggestions, missing_fields) ==
    [is_valid |-> Len(errors) = 0, errors |-> errors, suggestions |-> suggestions]

\* lines 550-555
ValidationResult(errors, suggestions, missing_fields) ==
    [is_valid |-> Len(errors) = 0 /\ Len(missing_fields) = 0,
     errors |-> errors, suggestions |-> suggestions]

\* BookingParser.validate_booking_info
validate_booking_info(booking_info) ==
    ValidationResult(Errors(booking_info), Suggestions(booking_info.missing_fields),
                     booking_info.missing_fields)
\* line 505
NoValidation == [is_valid |-> FALSE, errors |-> <<>>, suggestions |-> <<>>]

(***************************************************************************)
(* Inputs: texts, as what the TextAnalyzer and the regular expressions     *)
(* find in them, and the outcomes of the completion call                   *)
(***************************************************************************)
RuleName == <<"J", "o", "h", "n", " ", "D", "o", "e">>
RuleEmail == <<"j", "o", "h", "n", ".", "d", "o", "e", "@", "e", "x", "a", "m", "p", "l", "e", ".", "c", "o", "m">>
T_1400 == <<"1", "4", ":", "0", "0">>
T_230PM == <<"2", ":", "3", "0", " ", "P", "M">>
T_9am == <<"9", " ", "a", "m">>
T_1430pm == <<"1", "4", ":", "3", "0", " ", "p", "m">>
T_2599 == <<"2", "5", ":", "9", "9">>
LlmName == <<"J", "a", "n", "e", " ", "R", "o", "e">>
LlmEmail == <<"j", "a", "n", "e", "@", "c", "o", "r", "p", ".", "i", "o">>
LlmDateIso == <<"2", "0", "3", "0", "-", "0", "4", "-", "0", "1">>
LlmDateFree == <<"M", "a", "r", "c", "h", " ", "1", "0">>
LlmTime24 == <<"1", "5", ":", "4", "5">>
LlmTime12 == <<"2", ":", "3", "0", " ", "P", "M">>
LlmTypeFree == <<"t", "e", "c", "h", "n", "i", "c", "a", "l", "/", "h", "r">>
LlmNameShort == <<"J">>
LlmIntentCap == <<"B", "o", "o", "k", "i", "n", "g">>
LlmEmailBad == <<"n", "o", "t", "-", "a", "n", "-", "e", "m", "a", "i", "l">>
LlmDatePast == <<"2", "0", "0", "0", "-", "0", "1", "-", "0", "1">>
LlmDateNoDay == <<"2", "0", "2", "7", "-", "0", "2", "-", "3", "0">>
L_Prose == <<"H", "e", "r", "e", " ", "i", "s", " ", "t", "h", "e", " ", "b", "o", "o", "k", "i", "n", "g">>
L_NamePadded == <<" ", "N", "a", "m", "e", " ", ":", " ", "J", "a", "n", "e", " ", "R", "o", "e">>
L_EmailUpper == <<"E", "M", "A", "I", "L", ":", "j", "a", "n", "e", "@", "c", "o", "r", "p", ".", "i", "o">>
L_DateUpper == <<"d", "a", "t", "e", ":", " ", "N", "O", "T", "_", "F", "O", "U", "N", "D">>
L_TypeMissing == <<"t", "y", "p", "e", ":", " ", " ", "M", "i", "s", "s", "i", "n", "g">>
L_NameAgain == <<"n", "a", "m", "e", ":">>

MakeText(kw, te, persons, patterns, emails, nd, rd, nt, rt, hits) ==
    [keyword_matches |-> kw, temporal_entities |-> te,
     ner_persons |-> persons, pattern_names |-> patterns, email_matches |-> emails,
     ner_dates |-> nd, regex_dates |-> rd, ner_times |-> nt, regex_times |-> rt,
     type_hits |-> hits,
     keyword_substrings |-> kw > 0, type_substrings |-> hits]

\* the text of an invocation that has not started
NoText == MakeText(0, 0, <<>>, <<>>, <<>>, <<>>, <<>>, <<>>, <<>>, {})
NoRecord == BookingInfo(NoText)

\* the texts in which each required field is found or not, alone or together
Opt(present, x) == IF present THEN <<x>> ELSE <<>>
PresenceText(kw, te, n, e, d, t) ==
    MakeText(kw, te, <<>>, Opt(n, RuleName), Opt(e, RuleEmail),
             <<>>, Opt(d, Parsed(Today + DaysAhead)), <<>>, Opt(t, T_1400), {})
PresenceTexts ==
    {PresenceText(kw, te, n, e, d, t) :
        kw \in 0..MaxKeywordMatches, te \in 0..MaxTemporalEntities,
        n \in BOOLEAN, e \in BOOLEAN, d \in BOOLEAN, t \in BOOLEAN}

\* texts whose candidates are filtered, deduplicated, rejected or converted
FullText == PresenceText(1, 0, TRUE, TRUE, TRUE, TRUE)
VariantTexts ==
    {[FullText EXCEPT !.ner_persons = <<<<"J">>>>],
     [FullText EXCEPT !.ner_persons = <<<<"J">>>>, !.pattern_names = <<>>],
     [FullText EXCEPT !.ner_persons = <<RuleName>>],
     [FullText EXCEPT !.ner_dates = <<Parsed(Today - 2)>>, !.regex_dates = <<Unparseable>>],
     [FullText EXCEPT !.ner_dates = <<Parsed(Today - 1)>>, !.regex_dates = <<Parsed(Today - 1)>>],
     [FullText EXCEPT !.regex_dates = <<Parsed(Today - 1), Parsed(Today)>>],
     [FullText EXCEPT !.ner_times = <<T_230PM>>, !.regex_times = <<T_230PM>>],
     [FullText EXCEPT !.regex_times = <<T_2599, T_9am>>],
     [FullText EXCEPT !.regex_times = <<T_2599>>],
     [FullText EXCEPT !.regex_times = <<T_1430pm>>],
     [FullText EXCEPT !.type_hits = {S_hr, S_video}],
     [FullText EXCEPT !.type_hits = {S_onsite}, !.email_matches = <<>>],
     [FullText EXCEPT !.ner_dates = <<Parsed(Today + DaysAhead)>>,
                      !.regex_dates = <<Parsed(Today), Parsed(Today + DaysAhead)>>],
     [FullText EXCEPT !.keyword_matches = 0, !.type_hits = {},
                      !.type_substrings = {S_phone, S_onsite}],
     [FullText EXCEPT !.keyword_substrings = FALSE, !.temporal_entities = 1,
                      !.type_substrings = {}, !.type_hits = {S_video}]}

\* texts with one time of a twelve-hour clock, "h", "h:mm" and a marker;
\* a minute of -1 stands for a time written without a colon
ClockHours == 1..12
ClockMinutes == {-1, 30}
Markers == {<<" ", "P", "M">>, <<"a", "m">>}
HourText(h) == IF h < 10 THEN <<Digits[h + 1]>> ELSE Fmt2(h)
MinuteText(m) == IF m < 0 THEN <<>> ELSE <<":">> \o Fmt2(m)
ClockText(h, m, marker) == HourText(h) \o MinuteText(m) \o marker
ClockTexts ==
    {[FullText EXCEPT !.regex_times = <<ClockText(h, m, marker)>>] :
        h \in ClockHours, m \in ClockMinutes, marker \in Markers}

\* texts with one time entity that carries no marker
T_7 == <<"7">>
T_14 == <<"1", "4">>
T_24 == <<"2", "4">>
T_145 == <<"1", "4", "5">>
T_ab == <<"a", "b">>
T_7_5 == <<" ", "7", ":", "5">>
T_Noon == <<"N", "o", "o", "n">>
T_12midnight == <<"1", "2", " ", "m", "i", "d", "n", "i", "g", "h", "t">>
PlainTimes == {T_7, T_14, T_24, T_145, T_ab, T_7_5, T_1400, T_2599, T_Noon,
               T_12midnight, <<>>}
PlainTexts ==
    {[FullText EXCEPT !.ner_times = <<c>>, !.regex_times = <<>>] : c \in PlainTimes}

Texts == PresenceTexts \cup VariantTexts \cup ClockTexts \cup PlainTexts

KvLine(key, value) == key \o <<":", " ">> \o value
LlmText(n, e, d, t, ty, in) ==
    <<KvLine(S_name, n), KvLine(S_email, e), KvLine(S_date, d),
      KvLine(S_time, t), KvLine(S_type, ty), KvLine(S_intent, in)>>
LlmOpt(present, x) == IF present THEN x ELSE S_not_found
LlmPresenceTexts ==
    {LlmText(LlmOpt(n, LlmName), LlmOpt(e, LlmEmail), LlmOpt(d, LlmDateIso),
             LlmOpt(t, LlmTime24), S_not_found, in) :
        n \in BOOLEAN, e \in BOOLEAN, d \in BOOLEAN, t \in BOOLEAN,
        in \in {S_none, S_booking}}
LlmVariantTexts ==
    {LlmText(LlmName, LlmEmail, LlmDateFree, LlmTime24, S_phone, S_booking),
     LlmText(LlmName, LlmEmail, LlmDateIso, LlmTime12, LlmTypeFree, S_booking),
     LlmText(S_missing, <<>>, LlmDateIso, LlmTime24, S_general, S_scheduling),
     LlmText(LlmNameShort, LlmEmailBad, LlmDatePast, LlmTime24, S_hr, S_booking),
     LlmText(LlmName, LlmEmail, LlmDateNoDay, LlmTime24, S_not_found, S_none),
     LlmText(LlmName, S_not_found, LlmDateIso, S_not_found, S_not_found, LlmIntentCap),
     <<L_Prose, L_NamePadded, L_EmailUpper, L_DateUpper, KvLine(S_time, LlmTime24),
       L_TypeMissing, KvLine(S_intent, S_booking), L_NameAgain>>}
LlmTexts == LlmPresenceTexts \cup LlmVariantTexts

Outcomes ==
    {[kind |-> "ok", body |-> b] : b \in LlmTexts}
    \cup {[kind |-> k, body |-> <<>>] :
             k \in {"no_response_key", "status_error", "client_error", "exception"}}

(***************************************************************************)
(* process_booking_with_llm: one invocation per element of Invs            *)
(***************************************************************************)
Invs == {1, 2}

TypeOK ==
    /\ pc \in [Invs -> {"idle", "parsed", "awaiting", "done", "validated"}]
    /\ \A i \in Invs : llm_calls[i] \in 0..1 /\ combiner_runs[i] \in 0..1

Init ==
    /\ pc = [i \in Invs |-> "idle"]
    /\ text = [i \in Invs |-> NoText]
    /\ spacy_result = [i \in Invs |-> NoRecord]
    /\ extractors_run = [i \in Invs |-> {}]
    /\ llm_calls = [i \in Invs |-> 0]
    /\ llm_outcome = [i \in Invs |-> "none"]
    /\ llm_response = [i \in Invs |-> <<>>]
    /\ llm_result = [i \in Invs |-> NoRecord]
    /\ combiner_runs = [i \in Invs |-> 0]
    /\ result = [i \in Invs |-> NoRecord]
    /\ validation = [i \in Invs |-> NoValidation]
    /\ nlp \in BOOLEAN
    /\ chat_pc = [i \in Invs |-> "idle"]
    /\ query = [i \in Invs |-> NoText]
    /\ session_id = [i \in Invs |-> 0]
    /\ request_no = [i \in Invs |-> 0]
    /\ booking_id = [i \in Invs |-> 0]
    /\ db_result = [i \in Invs |-> "none"]
    /\ prompt_history = [i \in Invs |-> <<>>]
    /\ history = [s \in Sessions |-> <<>>]
    /\ rows = <<>>
    /\ request_count = 0

\* the name found by a pass is kept in the record of the next pass that
\* finds none
Start_KeepsName(i, t) ==
    /\ pc[i] = "idle"
    /\ pc' = [pc EXCEPT ![i] = "parsed"]
    /\ text' = [text EXCEPT ![i] = t]
    /\ spacy_result' =
           [spacy_result EXCEPT
               ![i] = [parse_booking_request(t) EXCEPT
                          !.name = IF \E j \in Invs : spacy_result[j].name # None
                                   THEN RuleName ELSE @]]
    /\ extractors_run' = [extractors_run EXCEPT ![i] = ExtractorsRun(t)]
    /\ UNCHANGED <<llm_calls, llm_outcome, llm_response, llm_result,
                   combiner_runs, result, validation, nlp, chat_vars>>

\* line 348: the rule-based pass on the text of the request
Start(i, t) ==
    /\ pc[i] = "idle"
    /\ pc' = [pc EXCEPT ![i] = "parsed"]
    /\ text' = [text EXCEPT ![i] = t]
    /\ spacy_result' = [spacy_result EXCEPT ![i] = parse_booking_request(t)]
    /\ extractors_run' = [extractors_run EXCEPT ![i] = ExtractorsRun(t)]
    /\ UNCHANGED <<llm_calls, llm_outcome, llm_response, llm_result,
                   combiner_runs, result, validation, nlp, chat_vars>>

\* the status is compared with the wrong member of BookingStatus
SpacyFoundEverything_WrongStatus(r) == r.status = "DETECTED"

\* line 351
SpacyFoundEverything(r) == r.status = "VALID"

\* spacy_result is returned with the confidence the rule-based pass gave
ReturnSpacy_KeepsConfidence(i) ==
    /\ pc[i] = "parsed"
    /\ SpacyFoundEverything(spacy_result[i])
    /\ result' = [result EXCEPT ![i] = spacy_result[i]]
    /\ pc' = [pc EXCEPT ![i] = "done"]
    /\ UNCHANGED <<text, spacy_result, extractors_run, llm_calls, llm_outcome,
                   llm_response, llm_result, combiner_runs, validation, nlp, chat_vars>>

\* lines 351-355: spacy_result is returned, with its confidence overwritten
ReturnSpacy(i) ==
    /\ pc[i] = "parsed"
    /\ SpacyFoundEverything(spacy_result[i])
    /\ spacy_result' = [spacy_result EXCEPT ![i].confidence = 95]
    /\ result' = [result EXCEPT ![i] = spacy_result'[i]]
    /\ pc' = [pc EXCEPT ![i] = "done"]
    /\ UNCHANGED <<text, extractors_run, llm_calls, llm_outcome, llm_response,
                   llm_result, combiner_runs, validation, nlp, chat_vars>>

\* lines 357-378: the prompt is built and the completion service called
CallLLM(i) ==
    /\ pc[i] = "parsed"
    /\ ~SpacyFoundEverything(spacy_result[i])
    /\ llm_calls' = [llm_calls EXCEPT ![i] = @ + 1]
    /\ pc' = [pc EXCEPT ![i] = "awaiting"]
    /\ UNCHANGED <<text, spacy_result, extractors_run, llm_outcome, llm_response,
                   llm_result, combiner_runs, result, validation, nlp, chat_vars>>

\* the rule-based record is an attribute of the parser: the request that
\* resumes combines the record of the request that parsed last
LLMReturns_SharedRecord(i, outcome) ==
    /\ pc[i] = "awaiting"
    /\ llm_outcome' = [llm_outcome EXCEPT ![i] = outcome.kind]
    /\ llm_response' = [llm_response EXCEPT ![i] = _call_ollama(outcome)]
    /\ llm_result' = [llm_result EXCEPT
                         ![i] = _parse_llm_response(llm_response'[i], text[i])]
    /\ combiner_runs' = [combiner_runs EXCEPT ![i] = @ + 1]
    /\ result' = [result EXCEPT
                     ![i] = _combine_results(
                                IF \E j \in Invs \ {i} : pc[j] \in {"parsed", "awaiting"}
                                THEN spacy_result[CHOOSE j \in Invs \ {i} :
                                                      pc[j] \in {"parsed", "awaiting"}]
                                ELSE spacy_result[i],
                                llm_result'[i])]
    /\ pc' = [pc EXCEPT ![i] = "done"]
    /\ UNCHANGED <<text, spacy_result, extractors_run, llm_calls, validation, nlp, chat_vars>>

\* lines 378-384: the call returns text, which is parsed and combined
LLMReturns(i, outcome) ==
    /\ pc[i] = "awaiting"
    /\ llm_outcome' = [llm_outcome EXCEPT ![i] = outcome.kind]
    /\ llm_response' = [llm_response EXCEPT ![i] = _call_ollama(outcome)]
    /\ llm_result' = [llm_result EXCEPT
                         ![i] = _parse_llm_response(llm_response'[i], text[i])]
    /\ combiner_runs' = [combiner_runs EXCEPT ![i] = @ + 1]
    /\ result' = [result EXCEPT
                     ![i] = _combine_results(spacy_result[i], llm_result'[i])]
    /\ pc' = [pc EXCEPT ![i] = "done"]
    /\ UNCHANGED <<text, spacy_result, extractors_run, llm_calls, validation, nlp, chat_vars>>

\* the fallback calls the completion service once more
LLMRaises_Retries(i) ==
    /\ pc[i] = "awaiting"
    /\ llm_outcome' = [llm_outcome EXCEPT ![i] = "raised"]
    /\ llm_calls' = [llm_calls EXCEPT ![i] = @ + 1]
    /\ result' = [result EXCEPT ![i] = parse_booking_request(text[i])]
    /\ extractors_run' = [extractors_run EXCEPT ![i] = ExtractorsRun(text[i])]
    /\ pc' = [pc EXCEPT ![i] = "done"]
    /\ UNCHANGED <<text, spacy_result, llm_response, llm_result,
                   combiner_runs, validation, nlp, chat_vars>>

\* the exception is not caught: the invocation ends with no record
LLMRaises_Propagates(i) ==
    /\ pc[i] = "awaiting"
    /\ llm_outcome' = [llm_outcome EXCEPT ![i] = "raised"]
    /\ pc' = [pc EXCEPT ![i] = "done"]
    /\ UNCHANGED <<text, spacy_result, extractors_run, llm_calls, llm_response,
                   llm_result, combiner_runs, result, validation, nlp, chat_vars>>

\* lines 386-389: the call raises (a completion service other than
\* LLMService, whose _call_ollama catches every Exception); the rule-based
\* pass is run again and its record returned
LLMRaises(i) ==
    /\ pc[i] = "awaiting"
    /\ llm_outcome' = [llm_outcome EXCEPT ![i] = "raised"]
    /\ result' = [result EXCEPT ![i] = parse_booking_request(text[i])]
    /\ extractors_run' = [extractors_run EXCEPT ![i] = ExtractorsRun(text[i])]
    /\ pc' = [pc EXCEPT ![i] = "done"]
    /\ UNCHANGED <<text, spacy_result, llm_calls, llm_response, llm_result,
                   combiner_runs, validation, nlp, chat_vars>>

\* the caller passes the returned record to validate_booking_info
Validate(i) ==
    /\ pc[i] = "done"
    /\ validation' = [validation EXCEPT ![i] = validate_booking_info(result[i])]
    /\ pc' = [pc EXCEPT ![i] = "validated"]
    /\ UNCHANGED <<text, spacy_result, extractors_run, llm_calls, llm_outcome,
                   llm_response, llm_result, combiner_runs, result, nlp, chat_vars>>

\* the locals of invocation i are gone
ReleaseLocals(i) ==
    /\ pc' = [pc EXCEPT ![i] = "idle"]
    /\ text' = [text EXCEPT ![i] = NoText]
    /\ spacy_result' = [spacy_result EXCEPT ![i] = NoRecord]
    /\ extractors_run' = [extractors_run EXCEPT ![i] = {}]
    /\ llm_calls' = [llm_calls EXCEPT ![i] = 0]
    /\ llm_outcome' = [llm_outcome EXCEPT ![i] = "none"]
    /\ llm_response' = [llm_response EXCEPT ![i] = <<>>]
    /\ llm_result' = [llm_result EXCEPT ![i] = NoRecord]
    /\ combiner_runs' = [combiner_runs EXCEPT ![i] = 0]
    /\ result' = [result EXCEPT ![i] = NoRecord]
    /\ validation' = [validation EXCEPT ![i] = NoValidation]

\* the caller has the record, and its validation report if it asked for
\* one
Finish(i) ==
    /\ pc[i] \in {"done", "validated"}
    /\ ReleaseLocals(i)
    /\ UNCHANGED <<nlp, chat_vars>>

\* one request at a time
Solo == {1}
Next ==
    \/ \E i \in Solo, t \in Texts : Start(i, t)
    \/ \E i \in Solo : ReturnSpacy(i)
    \/ \E i \in Solo : CallLLM(i)
    \/ \E i \in Solo, o \in Outcomes : LLMReturns(i, o)
    \/ \E i \in Solo : LLMRaises(i)
    \/ \E i \in Solo : Validate(i)
    \/ \E i \in Solo : Finish(i)

Spec == Init /\ [][Next]_vars

\* two requests in flight at once, on the texts and answers in which each
\* required field is found or not
PairTexts ==
    {PresenceText(1, 0, n, e, d, t) :
        n \in BOOLEAN, e \in BOOLEAN, d \in BOOLEAN, t \in BOOLEAN}
    \cup {PresenceText(0, 0, FALSE, FALSE, FALSE, FALSE)}
PairOutcomes ==
    {[kind |-> "ok",
      body |-> LlmText(LlmOpt(n, LlmName), LlmOpt(e, LlmEmail), LlmOpt(dt, LlmDateIso),
                       LlmOpt(dt, LlmTime24), S_not_found, S_booking)] :
        n \in BOOLEAN, e \in BOOLEAN, dt \in BOOLEAN}
    \cup {[kind |-> "exception", body |-> <<>>]}
NextPair ==
    \/ \E i \in Invs, t \in PairTexts : Start(i, t)
    \/ \E i \in Invs : ReturnSpacy(i)
    \/ \E i \in Invs : CallLLM(i)
    \/ \E i \in Invs, o \in PairOutcomes : LLMReturns(i, o)
    \/ \E i \in Invs : LLMRaises(i)
    \/ \E i \in Invs : Finish(i)

\* the parser of the two requests holds a TextAnalyzer
InitPair == Init /\ nlp
SpecPair == InitPair /\ [][NextPair]_vars

(***************************************************************************)
(* The chat endpoint, with the chat history of ChatMemoryService, the      *)
(* prompt of LLMService and the bookings table                             *)
(***************************************************************************)
\* Redis LPUSH, and LRANGE with a start that is not negative: the list is
\* kept newest first, indexes count from 0 and a negative stop counts from
\* the end
LPush(list, m) == <<m>> \o list
LRangeStop(list, stop) ==
    IF stop < 0 THEN Len(list) + stop
    ELSE IF stop > Len(list) - 1 THEN Len(list) - 1 ELSE stop
LRangeBetween(list, first, last) ==
    IF first > last THEN <<>> ELSE SubSeq(list, first + 1, last + 1)
LRange(list, start, stop) == LRangeBetween(list, start, LRangeStop(list, stop))

\* ChatMemoryService.store_message: the message is pushed and the expiry
\* of the key set, two calls of which either may raise; the timestamp of a
\* message is the number of messages its session held before it, plus one
StoreOutcomes == {"ok", "lpush_fails", "expire_fails"}
ChatMessage(role, request, list) ==
    [role |-> role, request |-> request, timestamp |-> Len(list) + 1]
store_message(list, role, request, outcome) ==
    IF outcome = "lpush_fails" THEN list
    ELSE LPush(list, ChatMessage(role, request, list))

\* ChatMemoryService.get_chat_history_json and its default limit
DefaultLimit == 10
get_chat_history_json(list, limit) == LRange(list, 0, limit - 1)
\* ChatMemoryService.get_chat_history_toon: limit is not passed on; the
\* TOON text lists the messages read, in their order
get_chat_history_toon(list, limit) == get_chat_history_json(list, DefaultLimit)
\* LLMService._build_toon_prompt, lines 33-39: the history of the prompt
PromptLimit == 5
_build_toon_prompt(list) == get_chat_history_toon(list, PromptLimit)

\* the validation report is not looked at
ShouldStore_StatusOnly(rec, val) ==
    /\ rec.status = "VALID"
    /\ Truthy(rec.name)
    /\ Truthy(rec.email)
    /\ Truthy(rec.date)
    /\ Truthy(rec.time)
    /\ Truthy(rec.interview_type)

\* chat, lines 145-153
ShouldStore(rec, val) ==
    /\ rec.status = "VALID"
    /\ val.is_valid
    /\ Truthy(rec.name)
    /\ Truthy(rec.email)
    /\ Truthy(rec.date)
    /\ Truthy(rec.time)
    /\ Truthy(rec.interview_type)
\* lines 164-169: neither strptime raises ValueError
Convertible(rec) == StrptimeYmd(rec.date).ok /\ StrptimeHM(rec.time).ok
\* lines 156-158, with the values of InterviewType
InterviewTypeValues ==
    {S_technical, S_hr, S_phone, S_video, S_onsite, S_general}
InterviewTypeValue(rec) ==
    IF Lower(rec.interview_type) \in InterviewTypeValues
    THEN Lower(rec.interview_type) ELSE S_general
\* lines 160-176: the row, with the number of the request that wrote it
BookingModel(rec, session, request, id) ==
    [id |-> id, request |-> request, session_id |-> session,
     name |-> rec.name, email |-> rec.email,
     booking_date |-> StrptimeYmd(rec.date),
     booking_time |-> StrptimeHM(rec.time),
     interview_type |-> InterviewTypeValue(rec),
     status |-> "PENDING", confidence_score |-> rec.confidence]
\* db.commit() or db.refresh() may raise
DbOutcomes == {"ok", "commit_fails", "refresh_fails"}

\* the requests of the chat model
ChatTexts ==
    {PresenceText(0, 0, FALSE, FALSE, FALSE, FALSE),
     FullText,
     PresenceText(1, 0, TRUE, TRUE, TRUE, FALSE),
     PresenceText(1, 0, FALSE, FALSE, TRUE, TRUE),
     [FullText EXCEPT !.regex_times = <<T_1430pm>>]}
ChatOutcomes ==
    {[kind |-> "ok", body |-> b] :
        b \in {LlmText(LlmName, LlmEmail, LlmDateIso, LlmTime24, S_not_found, S_booking),
               LlmText(S_not_found, S_not_found, S_not_found, S_not_found,
                       S_not_found, S_none),
               LlmText(LlmNameShort, LlmEmailBad, LlmDatePast, LlmTime24, S_hr, S_booking)}}
    \cup {[kind |-> "client_error", body |-> <<>>]}

\* lines 110-115: the request arrives and the user message is stored
ChatStoreUser(r, t, s, outcome) ==
    /\ chat_pc[r] = "idle"
    /\ pc[r] = "idle"
    /\ request_count < MaxRequests
    /\ detect_booking_intent(t) => Len(rows) < MaxRows
    /\ request_count' = request_count + 1
    /\ request_no' = [request_no EXCEPT ![r] = request_count + 1]
    /\ query' = [query EXCEPT ![r] = t]
    /\ session_id' = [session_id EXCEPT ![r] = s]
    /\ history' = [history EXCEPT
                      ![s] = store_message(@, "user", request_count + 1, outcome)]
    /\ chat_pc' = [chat_pc EXCEPT ![r] = IF outcome = "ok" THEN "stored" ELSE "failed"]
    /\ UNCHANGED <<pc, text, spacy_result, extractors_run, llm_calls, llm_outcome,
                   llm_response, llm_result, combiner_runs, result, validation, nlp,
                   booking_id, db_result, prompt_history, rows>>

\* lines 118-121: without intent the booking block is skipped
ChatDetect(r) ==
    /\ chat_pc[r] = "stored"
    /\ chat_pc' = [chat_pc EXCEPT
                      ![r] = IF detect_booking_intent(query[r])
                             THEN "booking" ELSE "booked"]
    /\ UNCHANGED <<pc, text, spacy_result, extractors_run, llm_calls, llm_outcome,
                   llm_response, llm_result, combiner_runs, result, validation, nlp,
                   query, session_id, request_no, booking_id, db_result,
                   prompt_history, history, rows, request_count>>

\* line 123: process_booking_with_llm is called on the query
ChatProcessBooking(r) ==
    /\ chat_pc[r] = "booking"
    /\ Start(r, query[r])

\* lines 145-193, after the validation of line 128: the row is written if
\* the record qualifies; a ValueError or a failure of the database rolls
\* back and leaves booking_id unset; the record is not read again
ChatPersist(r, db) ==
    /\ chat_pc[r] = "booking"
    /\ pc[r] = "validated"
    /\ IF ShouldStore(result[r], validation[r])
       THEN IF Convertible(result[r]) /\ db # "commit_fails"
            THEN /\ rows' = Append(rows, BookingModel(result[r], session_id[r],
                                                      request_no[r], Len(rows) + 1))
                 /\ booking_id' = [booking_id EXCEPT
                                      ![r] = IF db = "ok" THEN Len(rows) + 1 ELSE 0]
                 /\ db_result' = [db_result EXCEPT
                                     ![r] = IF db = "ok" THEN "written"
                                            ELSE "refresh_failed"]
            ELSE /\ db_result' = [db_result EXCEPT ![r] = "rolled_back"]
                 /\ UNCHANGED <<rows, booking_id>>
       ELSE /\ db = "ok"
            /\ UNCHANGED <<rows, booking_id, db_result>>
    /\ chat_pc' = [chat_pc EXCEPT ![r] = "booked"]
    /\ ReleaseLocals(r)
    /\ UNCHANGED <<nlp, query, session_id, request_no, prompt_history, history,
                   request_count>>

\* lines 196-200: rag_service.process_query returns, or raises and the
\* request ends with HTTP 500
ChatRetrieve(r, ok) ==
    /\ chat_pc[r] = "booked"
    /\ chat_pc' = [chat_pc EXCEPT ![r] = IF ok THEN "retrieved" ELSE "failed"]
    /\ UNCHANGED <<pc, text, spacy_result, extractors_run, llm_calls, llm_outcome,
                   llm_response, llm_result, combiner_runs, result, validation, nlp,
                   query, session_id, request_no, booking_id, db_result,
                   prompt_history, history, rows, request_count>>

\* lines 203-205: generate_response builds the prompt from the history it
\* reads and returns a reply; it returns an apology when the read raises
ChatGenerate(r, readable) ==
    /\ chat_pc[r] = "retrieved"
    /\ prompt_history' = [prompt_history EXCEPT
                             ![r] = IF readable
                                    THEN _build_toon_prompt(history[session_id[r]])
                                    ELSE <<>>]
    /\ chat_pc' = [chat_pc EXCEPT ![r] = "generated"]
    /\ UNCHANGED <<pc, text, spacy_result, extractors_run, llm_calls, llm_outcome,
                   llm_response, llm_result, combiner_runs, result, validation, nlp,
                   query, session_id, request_no, booking_id, db_result,
                   history, rows, request_count>>

\* lines 208-228: the reply is stored and the response returned; lines
\* 230-235: HTTP 500 when the store raises
ChatStoreAssistant(r, outcome) ==
    /\ chat_pc[r] = "generated"
    /\ history' = [history EXCEPT
                      ![session_id[r]] =
                          store_message(@, "assistant", request_no[r], outcome)]
    /\ chat_pc' = [chat_pc EXCEPT ![r] = IF outcome = "ok" THEN "returned" ELSE "failed"]
    /\ UNCHANGED <<pc, text, spacy_result, extractors_run, llm_calls, llm_outcome,
                   llm_response, llm_result, combiner_runs, result, validation, nlp,
                   query, session_id, request_no, booking_id, db_result,
                   prompt_history, rows, request_count>>

\* the response, or the error, has been sent
ChatDone(r) ==
    /\ chat_pc[r] \in {"returned", "failed"}
    /\ chat_pc' = [chat_pc EXCEPT ![r] = "idle"]
    /\ query' = [query EXCEPT ![r] = NoText]
    /\ session_id' = [session_id EXCEPT ![r] = 0]
    /\ request_no' = [request_no EXCEPT ![r] = 0]
    /\ booking_id' = [booking_id EXCEPT ![r] = 0]
    /\ db_result' = [db_result EXCEPT ![r] = "none"]
    /\ prompt_history' = [prompt_history EXCEPT ![r] = <<>>]
    /\ UNCHANGED <<pc, text, spacy_result, extractors_run, llm_calls, llm_outcome,
                   llm_response, llm_result, combiner_runs, result, validation, nlp,
                   history, rows, request_count>>

\* one chat request at a time
NextChat ==
    \/ \E r \in Solo, t \in ChatTexts, s \in Sessions, o \in StoreOutcomes :
          ChatStoreUser(r, t, s, o)
    \/ \E r \in Solo : ChatDetect(r)
    \/ \E r \in Solo : ChatProcessBooking(r)
    \/ \E r \in Solo : ReturnSpacy(r)
    \/ \E r \in Solo : CallLLM(r)
    \/ \E r \in Solo, o \in ChatOutcomes : LLMReturns(r, o)
    \/ \E r \in Solo : LLMRaises(r)
    \/ \E r \in Solo : Validate(r)
    \/ \E r \in Solo, db \in DbOutcomes : ChatPersist(r, db)
    \/ \E r \in Solo, ok \in BOOLEAN : ChatRetrieve(r, ok)
    \/ \E r \in Solo, readable \in BOOLEAN : ChatGenerate(r, readable)
    \/ \E r \in Solo, o \in StoreOutcomes : ChatStoreAssistant(r, o)
    \/ \E r \in Solo : ChatDone(r)

SpecChat == Init /\ [][NextChat]_vars

(***************************************************************************)
(* Properties                                                              *)
(***************************************************************************)
SeqToSet(s) == {s[i] : i \in 1..Len(s)}
\* the required fields that are unset in a record
Unset(r) == {f \in SeqToSet(RequiredFields) : Field(r, f) = None}
\* name, email, date, time, interview_type, status, confidence and
\* missing_fields of two records agree
SameBooking(a, b) ==
    /\ \A f \in SeqToSet(RequiredFields) : Field(a, f) = Field(b, f)
    /\ a.interview_type = b.interview_type
    /\ a.status = b.status
    /\ a.confidence = b.confidence
    /\ a.missing_fields = b.missing_fields
\* parse_booking_request has returned its record to invocation i
RuleReturned(i) == pc[i] \in {"parsed", "awaiting", "done"}
\* _combine_results has returned the record of invocation i
Combined(i) == pc[i] = "done" /\ combiner_runs[i] = 1

\* C1: in every record returned by parse_booking_request, _combine_results
\* or process_booking_with_llm, missing_fields is exactly the set of
\* required fields that are unset in the record
C1_MissingFieldsExact ==
    \A i \in Invs :
        /\ pc[i] = "parsed" =>
              SeqToSet(spacy_result[i].missing_fields) = Unset(spacy_result[i])
        /\ pc[i] = "done" =>
              SeqToSet(result[i].missing_fields) = Unset(result[i])

\* the completion service failed: its call raised, the HTTP exchange failed
\* or timed out, or the text it answered carries no field
CompletionFailed(i) ==
    /\ pc[i] = "done"
    /\ \/ llm_outcome[i] \in {"raised", "status_error", "client_error", "exception"}
       \/ Combined(i) /\ Unset(llm_result[i]) = SeqToSet(RequiredFields)

\* C2: whenever the completion service fails, process_booking_with_llm
\* returns the rule-based record unchanged
C2_FailureKeepsRuleRecord ==
    \A i \in Invs :
        CompletionFailed(i) => SameBooking(result[i], parse_booking_request(text[i]))

\* C3: a VALID rule-based record is returned at once, VALID with confidence
\* 0.95 and nothing missing, with no call of the completion service and no
\* run of the Combiner; the service is called only for a record not VALID
C3_ValidSkipsLLM ==
    \A i \in Invs :
        /\ llm_calls[i] > 0 => parse_booking_request(text[i]).status # "VALID"
        /\ (RuleReturned(i) /\ parse_booking_request(text[i]).status = "VALID") =>
              /\ llm_calls[i] = 0
              /\ combiner_runs[i] = 0
              /\ pc[i] # "awaiting"
              /\ pc[i] = "done" =>
                    /\ result[i] = [parse_booking_request(text[i]) EXCEPT !.confidence = 95]
                    /\ result[i].status = "VALID"
                    /\ result[i].missing_fields = <<>>
C3_Witness ==
    \E i \in Invs :
        /\ pc[i] = "done"
        /\ parse_booking_request(text[i]).status = "VALID"
        /\ result[i].confidence = 95
        /\ llm_calls[i] = 0

\* C4: each merged field is the rule record's value when it has one and the
\* LLM record's otherwise; interview_type is the rule value, else the LLM
\* value, else 'general'
C4_CombinerPrefersRule ==
    \A i \in Invs :
        Combined(i) =>
            /\ \A f \in SeqToSet(RequiredFields) :
                  Field(result[i], f) =
                      IF Field(spacy_result[i], f) # None
                      THEN Field(spacy_result[i], f) ELSE Field(llm_result[i], f)
            /\ result[i].interview_type =
                  IF spacy_result[i].interview_type # None
                  THEN spacy_result[i].interview_type
                  ELSE IF llm_result[i].interview_type # None
                  THEN llm_result[i].interview_type ELSE S_general
            /\ (Unset(spacy_result[i]) = {"email", "date", "time"}
                /\ Unset(llm_result[i]) \subseteq {"name"}) =>
                  /\ Unset(result[i]) = {}
                  /\ result[i].name = spacy_result[i].name
C4_Witness ==
    \E i \in Invs :
        /\ Combined(i)
        /\ Unset(spacy_result[i]) = {"email", "date", "time"}
        /\ Unset(llm_result[i]) = {}
        /\ llm_result[i].name # spacy_result[i].name
        /\ result[i].name = RuleName
        /\ result[i].email = LlmEmail

\* C5: the Combiner's status and confidence, from the number of fields
\* missing in the merged record and the number k the rule record populated
C5_CombinerTable ==
    \A i \in Invs :
        Combined(i) =>
            LET k == 4 - Cardinality(Unset(spacy_result[i]))
                missing == Cardinality(Unset(result[i]))
                sc == <<result[i].status, result[i].confidence>>
            IN /\ missing = 0 => sc = <<"VALID", IF k >= 3 THEN 95 ELSE 85>>
               /\ missing \in 1..2 => sc = <<"INCOMPLETE", IF k >= 2 THEN 75 ELSE 65>>
               /\ missing \in 3..4 => sc = <<"INCOMPLETE", 55>>
               /\ sc \in {<<"VALID", 95>>, <<"VALID", 85>>, <<"INCOMPLETE", 75>>,
                          <<"INCOMPLETE", 65>>, <<"INCOMPLETE", 55>>}
C5_Witness ==
    \E i \in Invs :
        /\ Combined(i)
        /\ Cardinality(Unset(spacy_result[i])) = 2
        /\ Cardinality(Unset(result[i])) = 0
        /\ result[i].confidence = 85

\* C6: with intent detected, parse_booking_request sets status and
\* confidence from the number of missing required fields only, and never
\* returns DETECTED or 0.4
C6_RuleTable ==
    \A i \in Invs :
        (pc[i] = "parsed" /\ detect_booking_intent(text[i])) =>
            LET missing == Cardinality(Unset(spacy_result[i]))
                sc == <<spacy_result[i].status, spacy_result[i].confidence>>
            IN /\ missing = 0 => sc = <<"VALID", 90>>
               /\ missing \in 1..2 => sc = <<"INCOMPLETE", 70>>
               /\ missing \in 3..4 => sc = <<"INCOMPLETE", 50>>
               /\ spacy_result[i].status # "DETECTED"
               /\ spacy_result[i].confidence # 40
C6_Witness ==
    \E i \in Invs :
        /\ pc[i] = "parsed"
        /\ detect_booking_intent(text[i])
        /\ Cardinality(Unset(spacy_result[i])) = 3
        /\ spacy_result[i].confidence = 50

\* C7: with no intent detected, parse_booking_request returns INCOMPLETE
\* with confidence 0.1 and no field set, and runs no entity extractor
C7_NoIntentShortCircuit ==
    \A i \in Invs :
        (pc[i] = "parsed" /\ ~detect_booking_intent(text[i])) =>
            /\ spacy_result[i].status = "INCOMPLETE"
            /\ spacy_result[i].confidence = 10
            /\ Unset(spacy_result[i]) = SeqToSet(RequiredFields)
            /\ extractors_run[i] = {}
C7_Witness ==
    \E i \in Invs :
        /\ pc[i] = "parsed"
        /\ ~detect_booking_intent(text[i])
        /\ text[i].email_matches # <<>>
        /\ text[i].regex_times # <<>>
        /\ spacy_result[i].confidence = 10

\* C8: a record returned by parse_booking_request, _parse_llm_response,
\* _combine_results or process_booking_with_llm is VALID only if its
\* missing_fields is empty and its four required fields are set
ValidIsComplete(r) ==
    r.status = "VALID" => r.missing_fields = <<>> /\ Unset(r) = {}
C8_ValidOnlyIfComplete ==
    \A i \in Invs :
        /\ ValidIsComplete(spacy_result[i])
        /\ ValidIsComplete(llm_result[i])
        /\ ValidIsComplete(result[i])
C8_Witness ==
    \E i \in Invs :
        /\ Combined(i)
        /\ llm_result[i].status = "VALID"
        /\ result[i].status = "VALID"
        /\ spacy_result[i].status = "INCOMPLETE"

\* two invocations hold records of the same extraction source: both the
\* record parse_booking_request returned, or both the Combiner's record for
\* the same number of fields populated by the rule record
RulePair(i, j) == pc[i] = "parsed" /\ pc[j] = "parsed"
CombinerPair(i, j) ==
    /\ Combined(i) /\ Combined(j)
    /\ Cardinality(Unset(spacy_result[i])) = Cardinality(Unset(spacy_result[j]))
\* the bands of the number of missing fields: none, one or two, three or four
Band(n) == IF n = 0 THEN "none" ELSE IF n <= 2 THEN "few" ELSE "most"

\* C9 (as stated): for a fixed extraction source, of two records the one
\* with strictly fewer missing fields has strictly higher confidence
C9_StrictlyIncreasing ==
    \A i, j \in Invs :
        /\ (RulePair(i, j)
            /\ Len(spacy_result[i].missing_fields) < Len(spacy_result[j].missing_fields)) =>
              spacy_result[i].confidence > spacy_result[j].confidence
        /\ (CombinerPair(i, j)
            /\ Len(result[i].missing_fields) < Len(result[j].missing_fields)) =>
              result[i].confidence > result[j].confidence

\* C9 (amended): for a fixed extraction source, of two records the one with
\* strictly fewer unset required fields has confidence at least as high, and
\* strictly higher when the two numbers lie in different bands
FewerUnsetNoLower(a, b) ==
    Cardinality(Unset(a)) < Cardinality(Unset(b)) =>
        /\ a.confidence >= b.confidence
        /\ Band(Cardinality(Unset(a))) # Band(Cardinality(Unset(b))) =>
              a.confidence > b.confidence
C9_MonotoneByBand ==
    \A i, j \in Invs :
        /\ RulePair(i, j) => FewerUnsetNoLower(spacy_result[i], spacy_result[j])
        /\ CombinerPair(i, j) => FewerUnsetNoLower(result[i], result[j])
C9_Witness ==
    \E i, j \in Invs :
        /\ RulePair(i, j)
        /\ Cardinality(Unset(spacy_result[i])) = 1
        /\ Cardinality(Unset(spacy_result[j])) = 2
        /\ spacy_result[i].confidence = spacy_result[j].confidence

\* canonical forms: YYYY-MM-DD with a month 01..12 and a day 01..31, and
\* HH:MM with an hour 00..23 and a minute 00..59
IsCanonicalDate(s) ==
    /\ Len(s) = 10
    /\ s[5] = "-" /\ s[8] = "-"
    /\ \A k \in {1, 2, 3, 4, 6, 7, 9, 10} : IsDigit(s[k])
    /\ DigitVal(s[6]) * 10 + DigitVal(s[7]) \in 1..12
    /\ DigitVal(s[9]) * 10 + DigitVal(s[10]) \in 1..31
IsCanonicalTime(s) ==
    /\ Len(s) = 5
    /\ s[3] = ":"
    /\ \A k \in {1, 2, 4, 5} : IsDigit(s[k])
    /\ DigitVal(s[1]) * 10 + DigitVal(s[2]) \in 0..23
    /\ DigitVal(s[4]) * 10 + DigitVal(s[5]) \in 0..59

\* C10: in every record returned by the engine, date when set is in the
\* form YYYY-MM-DD and time when set is in the 24-hour form HH:MM
CanonicalRecord(r) ==
    /\ r.date # None => IsCanonicalDate(r.date)
    /\ r.time # None => IsCanonicalTime(r.time)
C10_CanonicalDateTime ==
    \A i \in Invs :
        /\ pc[i] = "parsed" => CanonicalRecord(spacy_result[i])
        /\ pc[i] = "done" => CanonicalRecord(result[i])

\* the time candidates of a text, once extract_times has run on it
TimeCandidates(i) ==
    IF "times" \in extractors_run[i] THEN SeqToSet(TimeSpans(text[i])) ELSE {}
CanonicalOrUnset(x) == x = None \/ IsCanonicalTime(x)

\* C11: for every time string extract_times hands to it, _normalize_time
\* returns None or a zero-padded HH:MM with hour 00..23 and minute 00..59,
\* also for a string with a marker and an hour of 13 or more
C11_NormalizedOrUnset ==
    \A i \in Invs :
        \A c \in TimeCandidates(i) : CanonicalOrUnset(_normalize_time(c))

\* the hour and the minute an HH:MM string shows
HourShown(s) == DigitVal(s[1]) * 10 + DigitVal(s[2])
MinuteShown(s) == DigitVal(s[4]) * 10 + DigitVal(s[5])
IsPm(marker) == Contains(Lower(marker), S_pm)
\* the hour of the 24-hour clock for hour h of the twelve-hour clock
Hour24(h, marker) ==
    IF IsPm(marker) THEN (IF h # 12 THEN h + 12 ELSE h)
    ELSE (IF h = 12 THEN 0 ELSE h)
\* x is the canonical form of hour hh and minute mm
ShowsTime(x, hh, mm) ==
    x # None /\ IsCanonicalTime(x) /\ HourShown(x) = hh /\ MinuteShown(x) = mm
HasMarker(s) ==
    \/ Contains(Lower(s), S_am) \/ Contains(Lower(s), S_pm)
    \/ Contains(Lower(s), S_noon) \/ Contains(Lower(s), S_midnight)
\* invocation i has the time of a text whose only time candidate is c
OnlyTime(i, c) ==
    /\ pc[i] = "parsed"
    /\ "times" \in extractors_run[i]
    /\ TimeSpans(text[i]) = <<c>>

C13_ValidIffNoErrorsNothingMissing ==
    /\ [](\A i \in Invs :
            pc[i] = "validated" =>
                validation[i].is_valid =
                    (validation[i].errors = <<>> /\ result[i].missing_fields = <<>>))
    /\ [][\A i \in Invs :
            (pc[i] = "done" /\ pc'[i] = "validated") => result'[i] = result[i]]_vars
C13_Witness ==
    \E i \in Invs :
        /\ pc[i] = "validated"
        /\ result[i].missing_fields = <<>>
        /\ result[i].status = "VALID"
        /\ validation[i].errors # <<>>
        /\ ~validation[i].is_valid

\* the statuses a record has when an operation returns it
ReturnedStatus(r) == r.status \in {"INCOMPLETE", "VALID"}

\* C14: no operation of the engine assigns INVALID: the record returned by
\* parse_booking_request, by _parse_llm_response, by _combine_results and by
\* process_booking_with_llm is INCOMPLETE or VALID, also after
\* validate_booking_info has found errors in it
C14_InvalidUnreachable ==
    \A i \in Invs :
        /\ ReturnedStatus(spacy_result[i])
        /\ ReturnedStatus(llm_result[i])
        /\ ReturnedStatus(result[i])
C14_Witness ==
    \E i \in Invs :
        /\ pc[i] = "validated"
        /\ \E k \in 1..Len(validation[i].errors) :
              validation[i].errors[k] = "Date cannot be in the past"
        /\ result[i].status = "VALID"

\* C15: within one invocation the completion service is called at most
\* once; when the call fails it is not made again, and the fallback runs
\* the rule-based extraction only
C15_AtMostOneCall ==
    /\ [](\A i \in Invs : llm_calls[i] <= 1)
    /\ [][\A i \in Invs :
            pc[i] = "awaiting" =>
                /\ llm_calls'[i] <= llm_calls[i]
                /\ pc'[i] \in {"awaiting", "done"}]_vars
C15_Witness ==
    \E i \in Invs :
        /\ pc[i] = "done"
        /\ llm_outcome[i] = "raised"
        /\ llm_calls[i] = 1
        /\ combiner_runs[i] = 0
        /\ extractors_run[i] = AllExtractors

\* r is a record of the text t that an operation has filled in
IsRecordOf(r, t) ==
    /\ r.extracted_text = t
    /\ r.status \in {"INCOMPLETE", "VALID"}
    /\ r.confidence > 0

\* C16: whatever the completion service does (text with or without fields,
\* an error text, an exception or a timeout), process_booking_with_llm
\* returns a record and no exception reaches its caller
C16_AlwaysARecord ==
    /\ [](\A i \in Invs :
            llm_outcome[i] # "none" =>
                /\ pc[i] \in {"done", "validated"}
                /\ IsRecordOf(result[i], text[i]))
    /\ [][\A i \in Invs :
            (pc[i] = "awaiting" /\ pc'[i] # "awaiting") =>
                /\ pc'[i] = "done"
                /\ llm_outcome'[i] \in
                      {"ok", "no_response_key", "status_error", "client_error",
                       "exception", "raised"}
                /\ IsRecordOf(result'[i], text[i])]_vars
C16_Witness ==
    \E i \in Invs :
        /\ pc[i] = "done"
        /\ llm_outcome[i] = "exception"
        /\ llm_response[i] = <<ErrOtherText>>
        /\ IsRecordOf(result[i], text[i])

\* C17: in every record returned by parse_booking_request, _combine_results
\* or process_booking_with_llm, interview_type is one of technical, hr,
\* phone, video, onsite and general
EnumeratedType(r) ==
    r.interview_type \in SeqToSet(InterviewTypes) \cup {S_general}
C17_InterviewTypeEnumerated ==
    \A i \in Invs :
        /\ pc[i] = "parsed" => EnumeratedType(spacy_result[i])
        /\ pc[i] \in {"done", "validated"} => EnumeratedType(result[i])

\* parse_booking_request went past its intent check
Detected(i) == spacy_result[i].confidence # 10

\* C18: with a TextAnalyzer the intent is detected when there is a keyword
\* match, or a temporal entity and a score above 0, and is not detected
\* when there is neither keyword nor temporal entity; without one it is
\* detected exactly when a keyword is a substring of the lower-cased text
C18_IntentRule ==
    \A i \in Invs :
        pc[i] = "parsed" =>
            /\ (nlp /\ text[i].keyword_matches >= 1) => Detected(i)
            /\ (nlp /\ text[i].temporal_entities >= 1
                    /\ 2 * text[i].keyword_matches + text[i].temporal_entities > 0) =>
                  Detected(i)
            /\ (nlp /\ text[i].keyword_matches = 0 /\ text[i].temporal_entities = 0) =>
                  ~Detected(i)
            /\ ~nlp => (Detected(i) <=> text[i].keyword_substrings)
C18_Witness ==
    \E i \in Invs :
        /\ pc[i] = "parsed"
        /\ nlp
        /\ text[i].keyword_matches = 0
        /\ text[i].temporal_entities = 1
        /\ Detected(i)

\* the day a YYYY-MM-DD string names, in days since 2026-01-01
DayNumber(d) == (d.year - 2026) * 365 + CumDays[d.month] + d.day - 1
DayOfString(s) == DayNumber(StrptimeYmd(s))
\* the date string s is the day of a DATE entity of the text of invocation i
FromNer(i, s) ==
    /\ nlp
    /\ \E k \in 1..Len(text[i].ner_dates) :
          text[i].ner_dates[k].parsed /\ text[i].ner_dates[k].day = DayOfString(s)
DatesInOrder(i, dates) ==
    /\ \A k \in 1..Len(dates) :
          /\ StrptimeYmd(dates[k]).ok
          /\ DayOfString(dates[k]) >= Today - 1
          /\ ~FromNer(i, dates[k]) => DayOfString(dates[k]) >= Today
    /\ \A k, l \in 1..Len(dates) : k # l => dates[k] # dates[l]
    /\ \A k, l \in 1..Len(dates) :
          (k < l /\ FromNer(i, dates[l])) => FromNer(i, dates[k])
    /\ spacy_result[i].date = IF dates = <<>> THEN None ELSE dates[1]

\* C19: extract_dates returns no date before yesterday from a DATE entity
\* and none before today from the patterns alone, no date twice, the dates
\* of the entities before those of the patterns, and the record's date is
\* the first of the list
C19_DatesNotPast ==
    \A i \in Invs :
        (pc[i] = "parsed" /\ "dates" \in extractors_run[i]) =>
            DatesInOrder(i, extract_dates(text[i]))
C19_Witness ==
    \E i \in Invs :
        /\ pc[i] = "parsed"
        /\ "dates" \in extractors_run[i]
        /\ Len(text[i].regex_dates) = 2
        /\ text[i].regex_dates[1].day = Today - 1
        /\ Len(extract_dates(text[i])) = 1
        /\ DayOfString(spacy_result[i].date) = Today

\* the intent value of the response of invocation i, lower-cased
IntentOf(i) == Lower(DictGet(ExtractedData(llm_response[i]), S_intent, S_none))
LlmIs(r, status, confidence) == r.status = status /\ r.confidence = confidence

\* C20: the LLM sub-record is VALID with confidence 0.85 when the intent of
\* the response is booking or scheduling, in any case of letters, and the
\* four fields were parsed, INCOMPLETE with 0.65 and the unparsed fields in
\* missing_fields when some were not, and INCOMPLETE with 0.3 for any other
\* intent or none
C20_LlmStatusTable ==
    \A i \in Invs :
        Combined(i) =>
            IF IntentOf(i) \in {S_booking, S_scheduling}
            THEN IF Unset(llm_result[i]) = {}
                 THEN /\ LlmIs(llm_result[i], "VALID", 85)
                      /\ llm_result[i].missing_fields = <<>>
                 ELSE /\ LlmIs(llm_result[i], "INCOMPLETE", 65)
                      /\ SeqToSet(llm_result[i].missing_fields) = Unset(llm_result[i])
            ELSE LlmIs(llm_result[i], "INCOMPLETE", 30)
C20_Witness ==
    \E i \in Invs :
        /\ Combined(i)
        /\ DictGet(ExtractedData(llm_response[i]), S_intent, S_none) = LlmIntentCap
        /\ Unset(llm_result[i]) = {"email", "time"}
        /\ LlmIs(llm_result[i], "INCOMPLETE", 65)

\* what one line of a response gives: its key, the text before its first
\* colon trimmed and lower-cased, and its value, the text after it trimmed
KeyOf(line) == Lower(Strip(SubSeq(line, 1, IndexOf(line, ":") - 1)))
ValueOf(line) == Strip(SubSeq(line, IndexOf(line, ":") + 1, Len(line)))
Gives(line, key) ==
    /\ IndexOf(line, ":") > 0
    /\ KeyOf(line) = key
    /\ Lower(ValueOf(line)) \notin {S_not_found, S_missing, <<>>}
GivingLines(response, key) == {k \in 1..Len(response) : Gives(response[k], key)}
LastOf(S) == CHOOSE k \in S : \A l \in S : l <= k
GivenValue(response, key, default) ==
    IF GivingLines(response, key) = {} THEN default
    ELSE ValueOf(response[LastOf(GivingLines(response, key))])

\* C21: each line of the response is split on its first colon only, its
\* key trimmed and lower-cased, a line without a colon ignored, and the
\* values not_found and missing, in any case of letters, and the empty
\* value are unset: a field of the LLM sub-record is set exactly when some
\* line gives its key another value, to the value of the last such line
\* (interview_type is 'general' when no line gives one)
C21_FirstColonSplit ==
    \A i \in Invs :
        Combined(i) =>
            /\ llm_result[i].name = GivenValue(llm_response[i], S_name, None)
            /\ llm_result[i].email = GivenValue(llm_response[i], S_email, None)
            /\ llm_result[i].date = GivenValue(llm_response[i], S_date, None)
            /\ llm_result[i].time = GivenValue(llm_response[i], S_time, None)
            /\ llm_result[i].interview_type =
                   GivenValue(llm_response[i], S_type, S_general)
C21_Witness ==
    \E i \in Invs :
        /\ Combined(i)
        /\ llm_response[i][1] = L_Prose
        /\ llm_response[i][2] = L_NamePadded
        /\ llm_response[i][4] = L_DateUpper
        /\ llm_result[i].name = LlmName
        /\ llm_result[i].email = LlmEmail
        /\ llm_result[i].date = None
        /\ llm_result[i].time = LlmTime24
        /\ llm_result[i].interview_type = S_general

\* the rule-based record of invocation i is as parse_booking_request
\* returned it
RuleRecordHeld(i) == pc[i] \in {"parsed", "awaiting"}
\* the fallback of invocation i has run the rule-based pass a second time
RuleRerun(i) == pc[i] = "done" /\ llm_outcome[i] = "raised"

AloneResult(i) ==
    IF llm_calls[i] = 0
    THEN [parse_booking_request(text[i]) EXCEPT !.confidence = 95]
    ELSE IF llm_outcome[i] = "raised"
         THEN parse_booking_request(text[i])
         ELSE _combine_results(parse_booking_request(text[i]),
                               _parse_llm_response(llm_response[i], text[i]))
\* what invocation i holds
LocalsOf(i) ==
    <<pc[i], text[i], spacy_result[i], extractors_run[i], llm_calls[i],
      llm_outcome[i], llm_response[i], llm_result[i], combiner_runs[i],
      result[i], validation[i]>>
OneInvocationSteps == \E i \in Invs : \A j \in Invs \ {i} : LocalsOf(j)' = LocalsOf(j)

\* C23: with two invocations on the one parser in flight, interleaved at
\* the awaited completion call, the record each returns is the record it
\* returns alone on its own text, and no step of one invocation changes
\* anything the other holds or any attribute of the parser
C23_InterleavedAsAlone ==
    /\ [](\A i \in Invs : pc[i] = "done" => result[i] = AloneResult(i))
    /\ [][OneInvocationSteps /\ nlp' = nlp]_vars
C23_Witness ==
    \E i, j \in Invs :
        /\ i # j
        /\ Combined(i)
        /\ pc[j] = "awaiting"
        /\ Unset(spacy_result[i]) = {"name"}
        /\ Unset(spacy_result[j]) = {"date", "time"}
        /\ result[i].status = "VALID"
        /\ result[i].name = LlmName

\* every field the rule-based record has is in the record r unchanged
KeepsRuleFields(i, r) ==
    /\ \A f \in SeqToSet(RequiredFields) :
          Field(spacy_result[i], f) # None => Field(r, f) = Field(spacy_result[i], f)
    /\ spacy_result[i].interview_type # None =>
          r.interview_type = spacy_result[i].interview_type

\* C27: when the completion call returned text, the record returned has a
\* confidence strictly above that of the rule-based record, its missing
\* fields are among the required fields the rule-based record left unset,
\* and every field the rule-based record had is kept as it was
C27_LlmStageImproves ==
    \A i \in Invs :
        Combined(i) =>
            /\ result[i].confidence > spacy_result[i].confidence
            /\ SeqToSet(result[i].missing_fields) \subseteq Unset(spacy_result[i])
            /\ KeepsRuleFields(i, result[i])
C27_Witness ==
    \E i \in Invs :
        /\ Combined(i)
        /\ spacy_result[i].confidence = 70
        /\ Unset(spacy_result[i]) = {"email", "date"}
        /\ llm_result[i].name = LlmName
        /\ result[i].name = RuleName
        /\ result[i].confidence = 75
        /\ result[i].missing_fields = <<"email">>

\* the records that differ from r in status, confidence and missing_fields
\* at most
SameFieldsAs(r) ==
    {[r EXCEPT !.status = st, !.confidence = c, !.missing_fields = m] :
        st \in {"VALID", "INCOMPLETE", "DETECTED", "INVALID"},
        c \in {20, 30, 65, 85},
        m \in {<<>>, <<"name">>, RequiredFields}}
\* status, confidence and missing_fields of a merged record, from its
\* fields and the number of fields of the rule record alone
MergedVerdict(r, k) ==
    [status |-> IF Unset(r) = {} THEN "VALID" ELSE "INCOMPLETE",
     confidence |-> IF Unset(r) = {} THEN (IF k >= 3 THEN 95 ELSE 85)
                    ELSE IF Cardinality(Unset(r)) <= 2
                         THEN (IF k >= 2 THEN 75 ELSE 65)
                         ELSE 55,
     missing |-> Unset(r)]
VerdictOf(r) ==
    [status |-> r.status, confidence |-> r.confidence,
     missing |-> SeqToSet(r.missing_fields)]

\* C28: status, confidence and missing_fields of the merged record follow
\* from its field values and the number of required fields the rule record
\* has; the same merged record comes out whatever the status, confidence
\* and missing_fields of the LLM sub-record are, and the values of a
\* response without a booking intent are merged like any other
C28_LlmVerdictIgnored ==
    \A i \in Invs :
        Combined(i) =>
            /\ VerdictOf(result[i]) =
                   MergedVerdict(result[i], SpacyContributions(spacy_result[i]))
            /\ \A r \in SameFieldsAs(llm_result[i]) :
                   _combine_results(spacy_result[i], r) = result[i]
            /\ \A f \in Unset(spacy_result[i]) :
                   Field(result[i], f) = Field(llm_result[i], f)
C28_Witness ==
    \E i \in Invs :
        /\ Combined(i)
        /\ ~Detected(i)
        /\ spacy_result[i].confidence = 10
        /\ IntentOf(i) = S_none
        /\ LlmIs(llm_result[i], "INCOMPLETE", 30)
        /\ result[i].status = "VALID"
        /\ result[i].confidence = 85
        /\ result[i].name = LlmName
        /\ result[i].time = LlmTime24

\* C29: validate_booking_info reports is_valid = true for a returned
\* record only if name, email, date and time are all set in it and its
\* status is VALID
C29_ValidOnlyIfComplete ==
    \A i \in Invs :
        (pc[i] = "validated" /\ validation[i].is_valid) =>
            /\ Unset(result[i]) = {}
            /\ result[i].status = "VALID"

\* the step appends one row, written by request r
WritesRow(r) ==
    /\ Len(rows') = Len(rows) + 1
    /\ SubSeq(rows', 1, Len(rows)) = rows
    /\ rows'[Len(rows')].request = request_no[r]
    /\ rows'[Len(rows')].status = "PENDING"
\* the database rejects the write of request r in this step
WriteFails(r) == db_result[r] # "rolled_back" /\ db_result'[r] = "rolled_back"

\* C24: a step of the chat endpoint changes the bookings table only by
\* appending one row with status PENDING, for a request whose query has a
\* booking intent and whose record has status VALID, a validation report
\* with is_valid true and name, email, date, time and interview_type set;
\* no request writes two rows; when the write fails the table is as
\* before, the request goes on to its chat response and that response has
\* no booking_id
C24_RowOnlyWhenValid ==
    /\ [][rows' # rows =>
            \E r \in Invs :
                /\ chat_pc[r] = "booking"
                /\ detect_booking_intent(query[r])
                /\ result[r].status = "VALID"
                /\ pc[r] = "validated"
                /\ validation[r].is_valid
                /\ Unset(result[r]) = {}
                /\ result[r].interview_type # None
                /\ WritesRow(r)]_vars
    /\ [](\A k, l \in 1..Len(rows) : rows[k].request = rows[l].request => k = l)
    /\ [][\A r \in Invs :
            WriteFails(r) => (rows' = rows /\ chat_pc'[r] = "booked")]_vars
    /\ [](\A r \in Invs : db_result[r] = "rolled_back" => booking_id[r] = 0)
C24_Witness ==
    \E r \in Invs :
        /\ chat_pc[r] = "returned"
        /\ db_result[r] = "written"
        /\ booking_id[r] = 1
        /\ rows[1].status = "PENDING"
        /\ rows[1].request = request_no[r]
        /\ rows[1].name = LlmName
        /\ rows[1].booking_time = [ok |-> TRUE, hour |-> 14, minute |-> 0]

\* the messages of request r in the history of its session
MessagesOf(r) ==
    {m \in SeqToSet(history[session_id[r]]) : m.request = request_no[r]}
StoredBy(r, role) == {m \in MessagesOf(r) : m.role = role}
\* the history of the session of request r holds its query and, later,
\* its reply, and nothing else of it
UserThenAssistant(r) ==
    /\ Cardinality(MessagesOf(r)) = 2
    /\ \E u \in StoredBy(r, "user"), a \in StoredBy(r, "assistant") :
          u.timestamp < a.timestamp
\* request r ended with HTTP 500 after its query had been stored
FailedAfterFirstStore(r) == chat_pc[r] = "failed" /\ StoredBy(r, "user") # {}

\* C25: a request that has returned its response has stored two messages
\* in the history of its session, its query and then its reply; the query
\* is stored before detection, retrieval and generation; a request that
\* has failed after its query was stored has left the query and no reply
C25_TwoMessagesOrUserOnly ==
    \A r \in Invs :
        /\ chat_pc[r] = "returned" => UserThenAssistant(r)
        /\ chat_pc[r] \in {"stored", "booking", "booked", "retrieved", "generated"} =>
               (Cardinality(MessagesOf(r)) = 1 /\ StoredBy(r, "user") # {})
        /\ FailedAfterFirstStore(r) =>
               (Cardinality(MessagesOf(r)) = 1 /\ StoredBy(r, "assistant") = {})

\* the message of a list that only k - 1 others were stored after, and the
\* n most recently stored messages of a list, newest first
KthMostRecent(list, k) ==
    CHOOSE m \in SeqToSet(list) :
        Cardinality({x \in SeqToSet(list) : x.timestamp > m.timestamp}) = k - 1
MostRecent(list, n) ==
    [k \in 1..(IF n < Len(list) THEN n ELSE Len(list)) |-> KthMostRecent(list, k)]

\* C26: the history of the prompt of _build_toon_prompt has at most the 5
\* messages it asks for, the 5 most recently stored of the session, newest
\* first; a read of the history with limit n returns the n most recently
\* stored messages, newest first, or all of them when there are fewer
C26_PromptHistoryLimit ==
    /\ [](\A r \in Invs : Len(prompt_history[r]) <= PromptLimit)
    /\ [][\A r \in Invs :
            (chat_pc[r] = "retrieved" /\ prompt_history'[r] # prompt_history[r]) =>
                prompt_history'[r] = MostRecent(history[session_id[r]], PromptLimit)]_vars
    /\ [](\A s \in Sessions, n \in 1..DefaultLimit :
            get_chat_history_json(history[s], n) = MostRecent(history[s], n))

\* C30: every row of the bookings table has confidence_score 0.95 or 0.85;
\* the record of the request that writes a row was returned with the
\* override of a complete rule-based pass (0.95, no completion call) or by
\* the Combiner (0.95 or 0.85), never by the fallback, whose record is
\* never VALID
C30_RowConfidence ==
    /\ [](\A k \in 1..Len(rows) : rows[k].confidence_score \in {85, 95})
    /\ [][rows' # rows =>
            \E r \in Invs :
                /\ rows'[Len(rows')].request = request_no[r]
                /\ rows'[Len(rows')].confidence_score = result[r].confidence
                /\ llm_outcome[r] # "raised"
                /\ \/ llm_calls[r] = 0 /\ result[r].confidence = 95
                   \/ combiner_runs[r] = 1 /\ result[r].confidence \in {85, 95}]_vars
    /\ [](\A r \in Invs :
            (pc[r] \in {"done", "validated"} /\ llm_outcome[r] = "raised") =>
                result[r].status # "VALID")
C30_Witness ==
    \E r \in Invs :
        /\ db_result[r] = "written"
        /\ query[r] = PresenceText(1, 0, TRUE, TRUE, TRUE, FALSE)
        /\ rows[booking_id[r]].confidence_score = 95
        /\ rows[booking_id[r]].booking_time = [ok |-> TRUE, hour |-> 15, minute |-> 45]

====
